---- MODULE Spec2Model ----
(***************************************************************************)
(* The billing engine of the resource-billing analyzer                    *)
(* (src/csv_analyzer.py, analyze_csv_bulk) as a state machine.            *)
(*                                                                         *)
(* Numbers.  Hours and money are kept in hundredths (168.00 h is 16800,   *)
(* 8.75 h/day is 875, the factor 0.88 is 88); rates are whole currency    *)
(* units.  Python's round(x, 2) rounds the double x: it is the hundredth   *)
(* nearest to the exact value except where the exact value lies halfway    *)
(* between two hundredths, and there the double computed operation by      *)
(* operation decides.                                                      *)
(* Dates are the tuple <<year, month number, day>> that the f-string     *)
(* "{year}-{month:02d}-{day:02d}" prints; <<>> is the blank date.        *)
(* A table cell is Num(v), NaN (empty) or Str (text that float() rejects).*)
(* A total the code never rounds is a float: Num(v) when it is the double *)
(* nearest to v hundredths, Float(x) with the double x itself otherwise.  *)
(*                                                                         *)
(* Specifications.  Spec is one call of analyze_csv_bulk; RepeatSpec calls *)
(* it a second time, on the same upload objects and dictionaries or on the *)
(* file of one of the rows; AppSpec is the page's "Process Data" step      *)
(* with the service-rate upload (src/tsr_processor.py); RateSpec fills the *)
(* page's exchange rates from its rate fields and calls                    *)
(* convert_exchange_rate on its own, in IEEE doubles.                      *)
(***************************************************************************)
EXTENDS Integers, Sequences, FiniteSets, TLC

\* ------------------------------------------------------------- constants

MONTHS ==
  <<"Jan", "Feb", "Mar", "Apr", "May", "Jun",
    "Jul", "Aug", "Sep", "Oct", "Nov", "Dec">>

MonthSet == {MONTHS[i] : i \in 1..Len(MONTHS)}

DEFAULT_WORKING_DAYS == 21

\* Largest number of rows of the primary dataset.
MaxRows == 2

\* ----------------------------------------------------------------- cells

Num(v) == [k |-> "num", v |-> v]

NaN == [k |-> "nan", v |-> 0]

Str == [k |-> "str", v |-> 0]

\* A float that is not the double of a whole number of hundredths: the
\* double itself (1998.3600000000001 beside 1998.36).
Float(x) == [k |-> "float", d |-> x]

NoActuals == [m \in MonthSet |-> NaN]

\* ------------------------------------------------------------ arithmetic

\* round(n / d, 0) for d > 0, ties to the even neighbour (Python's round).
RoundHalfEven(n, d) ==
  LET q == n \div d
      r == n % d
  IN  IF 2 * r < d THEN q
      ELSE IF 2 * r > d THEN q + 1
      ELSE IF q % 2 = 0 THEN q ELSE q + 1

\* ------------------------------------------------------- IEEE doubles
\* Python floats are IEEE doubles.  A positive double is kept as its 53-bit
\* significand m (2^52 <= m < 2^53) and exponent e, of value m x 2^e; the
\* significand and the intermediate values of a division are kept in two
\* limbs [hi, lo] of value hi x Limb + lo so that no operation leaves TLC's
\* integers.

Limb == 2^28

Big(n) == [hi |-> n \div Limb, lo |-> n % Limb]

Dbl(x) ==
  [hi |-> 2 * x.hi + ((2 * x.lo) \div Limb), lo |-> (2 * x.lo) % Limb]

Geq(x, y) == x.hi > y.hi \/ (x.hi = y.hi /\ x.lo >= y.lo)

Minus(x, y) ==
  IF x.lo >= y.lo THEN [hi |-> x.hi - y.hi, lo |-> x.lo - y.lo]
  ELSE [hi |-> x.hi - y.hi - 1, lo |-> x.lo + Limb - y.lo]

Succ(x) ==
  IF x.lo + 1 = Limb THEN [hi |-> x.hi + 1, lo |-> 0]
  ELSE [hi |-> x.hi, lo |-> x.lo + 1]

\* 0.0 (and the int 0 that convert_exchange_rate returns for a rate of 0).
Zero == [m |-> Big(0), e |-> 0]

\* 2^52 and 2^53, the bounds of a significand.
MinSignificand == [hi |-> 2^24, lo |-> 0]

TopSignificand == [hi |-> 2^25, lo |-> 0]

\* n / d x 2^ex with d <= n < 2d.
RECURSIVE Normalized(_, _, _)
Normalized(n, d, ex) ==
  IF ~Geq(n, d) THEN Normalized(Dbl(n), d, ex - 1)
  ELSE IF Geq(n, Dbl(d)) THEN Normalized(n, Dbl(d), ex + 1)
  ELSE [n |-> n, d |-> d, ex |-> ex]

\* One bit of the long division of rem / d: q is the quotient so far and
\* rem the remainder doubled.  Nothing is done once q has its 53 bits.
DivisionStep(st, d) ==
  IF Geq(st.q, MinSignificand) THEN st
  ELSE IF Geq(st.rem, d)
       THEN [q |-> Succ(Dbl(st.q)), rem |-> Dbl(Minus(st.rem, d))]
       ELSE [q |-> Dbl(st.q), rem |-> Dbl(st.rem)]

EightSteps(st, d) ==
  DivisionStep(DivisionStep(DivisionStep(DivisionStep(
    DivisionStep(DivisionStep(DivisionStep(DivisionStep(st, d), d), d), d),
    d), d), d), d)

\* Long division of n / d (d <= n < 2d) to a quotient of 53 bits, eight
\* bits at a time.
RECURSIVE QuotientBits(_, _)
QuotientBits(st, d) ==
  IF Geq(st.q, MinSignificand) THEN st
  ELSE QuotientBits(EightSteps(st, d), d)

\* The quotient q of 53 bits, of doubled remainder rem over d, rounded to
\* the nearest significand, ties to the even one, with the exponent ex of
\* the normalized division.
RoundedQuotient(q, rem, d, ex) ==
  LET up == IF rem = d THEN q.lo % 2 = 1 ELSE Geq(rem, d)
      m == IF up THEN Succ(q) ELSE q
  IN  IF m = TopSignificand THEN [m |-> MinSignificand, e |-> ex - 51]
      ELSE [m |-> m, e |-> ex - 52]

RoundedDivision(qr, nz) == RoundedQuotient(qr.q, qr.rem, nz.d, nz.ex)

DivisionOf(nz) ==
  RoundedDivision(QuotientBits([q |-> Big(0), rem |-> nz.n], nz.d), nz)

\* The double nearest to n / d x 2^ex (n, d > 0), ties to the even
\* significand: what the division of two floats and the reading of a
\* decimal literal return.
NearestDouble(n, d, ex) == DivisionOf(Normalized(n, d, ex))

\* The float of a number-input field holding n ten-thousandths.
FloatOfEntry(n) ==
  IF n = 0 THEN Zero ELSE NearestDouble(Big(n), Big(10000), 0)

\* 1 / x for a float x # 0: 1 = 2^53 x 2^-53 over x.m x 2^x.e.
OneOver(x) == NearestDouble(TopSignificand, x.m, 0 - x.e - 53)

\* Products, sums and differences of significands are kept in eight digits
\* of 14 bits, w[0] the lowest: a natural below 2^112.

Digit == 2^14

Digits == 0..7

NoDigits == [i \in Digits |-> 0]

WideOfBig(x) ==
  [i \in Digits |->
     CASE i = 0 -> x.lo % Digit
       [] i = 1 -> x.lo \div Digit
       [] i = 2 -> x.hi % Digit
       [] i = 3 -> x.hi \div Digit
       [] OTHER -> 0]

BigOfWide(w) == [hi |-> w[3] * Digit + w[2], lo |-> w[1] * Digit + w[0]]

WideOfInt(n) == WideOfBig(Big(n))

IntOfWide(w) == (w[2] * Digit + w[1]) * Digit + w[0]

\* The carry that the digits below i hand to digit i.
RECURSIVE CarryInto(_, _)
CarryInto(cols, i) ==
  IF i = 0 THEN 0 ELSE (cols[i - 1] + CarryInto(cols, i - 1)) \div Digit

Carried(cols) == [i \in Digits |-> (cols[i] + CarryInto(cols, i)) % Digit]

\* a x b for a, b < 2^56.
WideMul(a, b) ==
  LET P(i, j) == IF j \in 0..3 THEN a[i] * b[j] ELSE 0
  IN  Carried([k \in Digits |-> P(0, k) + P(1, k - 1) + P(2, k - 2) + P(3, k - 3)])

WideAdd(a, b) == Carried([i \in Digits |-> a[i] + b[i]])

\* a - b for a >= b.
WideSub(a, b) ==
  Carried([i \in Digits |-> a[i] + (Digit - 1 - b[i]) + (IF i = 0 THEN 1 ELSE 0)])

DigitAt(w, i) == IF i \in Digits THEN w[i] ELSE 0

\* w x 2^s and the whole part of w / 2^s.
ShiftLeft(w, s) ==
  LET ds == s \div 14
      bs == s % 14
  IN  [j \in Digits |->
         ((DigitAt(w, j - ds) * 2^bs) % Digit)
         + (DigitAt(w, j - ds - 1) \div 2^(14 - bs))]

ShiftRight(w, s) ==
  LET ds == s \div 14
      bs == s % 14
  IN  [j \in Digits |->
         (DigitAt(w, j + ds) \div 2^bs)
         + ((DigitAt(w, j + ds + 1) % 2^bs) * 2^(14 - bs))]

BitAt(w, i) == (DigitAt(w, i \div 14) \div (2^(i % 14))) % 2

\* No bit of w below bit s is set.
ZeroBelow(w, s) ==
  \A j \in Digits :
    /\ j < s \div 14 => w[j] = 0
    /\ j = s \div 14 => w[j] % (2^(s % 14)) = 0

\* w / 2^s rounded to the nearest natural, ties to the even one.
RoundedShift(w, s) ==
  IF s <= 0 THEN w
  ELSE LET q == ShiftRight(w, s)
           up == /\ BitAt(w, s - 1) = 1
                 /\ (~ZeroBelow(w, s - 1) \/ q[0] % 2 = 1)
       IN  IF up THEN WideAdd(q, WideOfInt(1)) ELSE q

DigitBits(d) == CHOOSE n \in 0..14 : 2^n > d /\ (n = 0 \/ 2^(n - 1) <= d)

BitLength(w) ==
  IF w = NoDigits THEN 0
  ELSE LET t == CHOOSE i \in Digits :
                  w[i] # 0 /\ \A j \in Digits : j > i => w[j] = 0
       IN  14 * t + DigitBits(w[t])

\* The double of q x 2^(ex + len - 53), q being a natural of len > 53 bits
\* rounded to 53 (or, by a carry, 54) bits.
DoubleOfRounded(q, ex, len) ==
  IF BitLength(q) = 54
  THEN [m |-> MinSignificand, e |-> ex + len - 52]
  ELSE [m |-> BigOfWide(q), e |-> ex + len - 53]

\* The double nearest to w x 2^ex for w of len bits.
DoubleOfLength(w, ex, len) ==
  IF len = 0 THEN Zero
  ELSE IF len <= 53
  THEN [m |-> BigOfWide(ShiftLeft(w, 53 - len)), e |-> ex - (53 - len)]
  ELSE DoubleOfRounded(RoundedShift(w, len - 53), ex, len)

\* The double nearest to w x 2^ex, ties to the even significand: how every
\* operation on floats rounds its exact result.
DoubleOfWide(w, ex) == DoubleOfLength(w, ex, BitLength(w))

\* x >= y, x * y, x / y, x + y and x - y (for x >= y) of doubles x, y >= 0.
FloatGeq(x, y) ==
  IF y = Zero THEN TRUE
  ELSE IF x = Zero THEN FALSE
  ELSE x.e > y.e \/ (x.e = y.e /\ Geq(x.m, y.m))

FloatTimes(x, y) ==
  IF x = Zero \/ y = Zero THEN Zero
  ELSE DoubleOfWide(WideMul(WideOfBig(x.m), WideOfBig(y.m)), x.e + y.e)

FloatOver(x, y) ==
  IF x = Zero THEN Zero ELSE NearestDouble(x.m, y.m, x.e - y.e)

\* The sum of two significands, and the whole part and the rest of a
\* significand over 2^g (0 <= g <= 54), in limbs; 2^(g - 1) for g >= 1.
Plus(x, y) ==
  IF x.lo + y.lo >= Limb THEN [hi |-> x.hi + y.hi + 1, lo |-> x.lo + y.lo - Limb]
  ELSE [hi |-> x.hi + y.hi, lo |-> x.lo + y.lo]

Quotient(x, g) ==
  IF g < 28
  THEN [hi |-> x.hi \div 2^g, lo |-> (x.lo \div 2^g) + (x.hi % 2^g) * 2^(28 - g)]
  ELSE [hi |-> 0, lo |-> x.hi \div 2^(g - 28)]

Rest(x, g) ==
  IF g < 28 THEN [hi |-> 0, lo |-> x.lo % 2^g]
  ELSE [hi |-> x.hi % 2^(g - 28), lo |-> x.lo]

HalfOf(g) ==
  IF g <= 28 THEN [hi |-> 0, lo |-> 2^(g - 1)] ELSE [hi |-> 2^(g - 29), lo |-> 0]

\* The double m x 2^e, or the one after it when up.
RoundedUp(m, up, e) ==
  IF ~up THEN [m |-> m, e |-> e]
  ELSE IF Succ(m) = TopSignificand THEN [m |-> MinSignificand, e |-> e + 1]
  ELSE [m |-> Succ(m), e |-> e]

\* The double nearest to (t + r / 2^g) x 2^e, ties to the even
\* significand, for t of 53 or 54 bits and a rest r < 2^g.
RoundedSum(t, r, g, e) ==
  IF Geq(t, TopSignificand)
  THEN RoundedUp(Quotient(t, 1),
                 t.lo % 2 = 1 /\ (r # Big(0) \/ Quotient(t, 1).lo % 2 = 1),
                 e + 1)
  ELSE RoundedUp(t,
                 g > 0 /\ (IF r = HalfOf(g) THEN t.lo % 2 = 1 ELSE Geq(r, HalfOf(g))),
                 e)

FloatPlus(x, y) ==
  IF x = Zero THEN y
  ELSE IF y = Zero THEN x
  ELSE LET big == IF x.e >= y.e THEN x ELSE y
           small == IF x.e >= y.e THEN y ELSE x
           gap == big.e - small.e
       IN  IF gap > 54 THEN big
           ELSE RoundedSum(Plus(big.m, Quotient(small.m, gap)),
                           Rest(small.m, gap), gap, big.e)

FloatMinus(x, y) ==
  IF y = Zero THEN x
  ELSE IF x.e - y.e > 54 THEN x
  ELSE DoubleOfWide(WideSub(ShiftLeft(WideOfBig(x.m), x.e - y.e),
                            WideOfBig(y.m)), y.e)

\* float(n) of a natural n, and the float of the decimal n / 100.
FloatOfInt(n) == DoubleOfWide(WideOfInt(n), 0)

\* A whole number of quarters is a double (n / 25 x 2^-2); any other
\* decimal is read as the double nearest to it.
FloatOfHundredths(n) ==
  IF n = 0 THEN Zero
  ELSE IF n % 25 = 0 THEN DoubleOfWide(WideOfInt(n \div 25), 0 - 2)
  ELSE NearestDouble(Big(n), Big(100), 0)

\* round(x, 2) of a double 0 <= x < 2^53, in hundredths: Python rounds the
\* double's exact value, ties to the even hundredth.
HundredthsOf(x) ==
  IF x = Zero THEN 0
  ELSE IntOfWide(RoundedShift(WideMul(WideOfBig(x.m), WideOfInt(100)), 0 - x.e))

\* Floats of either sign: the sign and the absolute value.
Signed(neg, abs) == [neg |-> neg /\ abs # Zero, abs |-> abs]

SignedInt(n) == Signed(n < 0, FloatOfInt(IF n < 0 THEN 0 - n ELSE n))

SignedHundredths(n) ==
  Signed(n < 0, FloatOfHundredths(IF n < 0 THEN 0 - n ELSE n))

SignedTimes(x, y) == Signed(x.neg # y.neg, FloatTimes(x.abs, y.abs))

SignedOver(x, y) == Signed(x.neg # y.neg, FloatOver(x.abs, y.abs))

SignedPlus(x, y) ==
  IF x.neg = y.neg THEN Signed(x.neg, FloatPlus(x.abs, y.abs))
  ELSE IF FloatGeq(x.abs, y.abs) THEN Signed(x.neg, FloatMinus(x.abs, y.abs))
  ELSE Signed(y.neg, FloatMinus(y.abs, x.abs))

SignedMinus(x, y) == SignedPlus(x, [neg |-> ~y.neg, abs |-> y.abs])

\* round(x, 2) in hundredths.
Round2(x) == IF x.neg THEN 0 - HundredthsOf(x.abs) ELSE HundredthsOf(x.abs)

\* The cell of a float x whose round(x, 2) is h hundredths.
CellOfRounded(x, h) == IF SignedHundredths(h) = x THEN Num(h) ELSE Float(x)

\* The cell of a float.
FloatCell(x) == CellOfRounded(x, Round2(x))

\* The float a cell with a number holds.
DoubleOf(cell) == IF cell.k = "float" THEN cell.d ELSE SignedHundredths(cell.v)

\* round(x, 2) of a cell: a NaN stays one.
RoundedCell(cell) == IF cell.k = "float" THEN Num(Round2(cell.d)) ELSE cell

\* ------------------------------------------- rounding to two decimals
\* The code rounds floats.  A float result lies within a few units in the
\* last place of the exact result, so round(x, 2) is the exact result
\* rounded unless that one is halfway between two hundredths; there the
\* float decides, computed operation by operation as the code computes it.

\* 100 a / b (b # 0) in hundredths of a percent: rounded is its nearest
\* hundredth (ties to even) and tie says that it lies halfway between two;
\* divided in stages so that no intermediate product leaves 32 bits.
PercentParts(a, b) ==
  LET n == IF b < 0 THEN 0 - a ELSE a
      d == IF b < 0 THEN 0 - b ELSE b
      q0 == n \div d
      r0 == n % d
      q1 == (r0 * 100) \div d
      r1 == (r0 * 100) % d
  IN  [rounded |-> q0 * 10000 + q1 * 100 + RoundHalfEven(r1 * 100, d),
       tie |-> 2 * ((r1 * 100) % d) = d]

\* round((a / b) * 100, 2) for floats a, b # 0 that stand for exact_a and
\* exact_b hundredths.
PercentRounded(exact_a, exact_b, a, b) ==
  LET exact == PercentParts(exact_a, exact_b)
  IN  IF ~exact.tie THEN exact.rounded
      ELSE Round2(SignedTimes(SignedOver(a, b), SignedInt(100)))

\* list.index: MONTHS.index(month), 0-based; only called when month is in MONTHS.
MonthsIndex(month) == (CHOOSE i \in 1..Len(MONTHS) : MONTHS[i] = month) - 1

InMonths(month) == \E i \in 1..Len(MONTHS) : MONTHS[i] = month

\* str(cell) of a deputation cell: its text, "nan" for the empty cell (which
\* the reader turns into NaN and the model writes "").
CellText(cell) == IF cell = "" THEN "nan" ELSE cell

\* Faulty variant of Upper: the text is compared as it is written.
Upper_AsWritten(s) == s

\* str.upper() on the deputation strings of the datasets.
Upper(s) ==
  CASE s \in {"ONSITE", "onsite", "Onsite"} -> "ONSITE"
    [] s \in {"OFFSHORE", "offshore", "Offshore"} -> "OFFSHORE"
    [] s \in {"NEARSHORE", "nearshore", "NearShore"} -> "NEARSHORE"
    [] s \in {"REMOTE", "remote"} -> "REMOTE"
    [] s = "nan" -> "NAN"
    [] s \in {"ONSITE ", "onsite "} -> "ONSITE "
    [] s \in {"ON SITE", "on site"} -> "ON SITE"
    [] OTHER -> s

\* DEPUTATION_FACTORS.get(deputation, 1), in hundredths.
DeputFactor(deputation) ==
  CASE deputation = "OFFSHORE" -> 88
    [] deputation = "ONSITE" -> 95
    [] deputation = "NEARSHORE" -> 90
    [] OTHER -> 100

\* DEPUTATION_HOURS.get(deputation, 8), in hundredths of an hour.
DeputHours(deputation) ==
  CASE deputation = "ONSITE" -> 800
    [] deputation = "OFFSHORE" -> 875
    [] deputation = "NEARSHORE" -> 900
    [] OTHER -> 800

\* working_days_config.get(month, DEFAULT_WORKING_DAYS)
WorkingDays(wdc, month) ==
  IF month \in DOMAIN wdc THEN wdc[month] ELSE DEFAULT_WORKING_DAYS

\* Faulty variant of StandardHours: the configured working days are ignored.
StandardHours_DefaultDays(wdc, month, deput_hours) ==
  DEFAULT_WORKING_DAYS * deput_hours

\* standard_hours = working_days * deput_hours
StandardHours(wdc, month, deput_hours) == WorkingDays(wdc, month) * deput_hours

\* float(record.get("Average/Flat-lined Rate", 0) or 0), 0 when float() fails:
\* the number of a numeric cell, NaN for the empty cell (NaN is truthy and
\* float(nan) is nan), 0 for a text that float() rejects.
AvgRate(cell) ==
  CASE cell.k = "num" -> cell
    [] cell.k = "nan" -> NaN
    [] OTHER -> Num(0)

\* ---------------------------------------------------- adjustment inputs

\* replacement_info = {} : rep_info.get("replacement") is falsy.
NoReplacement ==
  [replacement |-> FALSE, replacement_name |-> "", replacement_id |-> "",
   join_month |-> "", join_day |-> 0, join_year |-> ""]

\* The replacement descriptor the form stores when a name and an id are given.
Replacement(name, id, join_month, join_day, join_year) ==
  [replacement |-> TRUE, replacement_name |-> name, replacement_id |-> id,
   join_month |-> join_month, join_day |-> join_day, join_year |-> join_year]

\* The default used for an employee with no entry in employee_params; the
\* form's "No adjustment" entry has the same values.
NoAdjustment ==
  [employee_left |-> FALSE, left_in_month |-> "", left_day |-> 0,
   left_year |-> "", leave_month |-> "", leave_days |-> 0,
   replacement_info |-> NoReplacement]

\* The form's "Employee left" entry, with the replacement descriptor (or none).
ExitAdjustment(left_month, left_day, left_year, rep_info) ==
  [employee_left |-> TRUE, left_in_month |-> left_month, left_day |-> left_day,
   left_year |-> left_year, leave_month |-> "", leave_days |-> 0,
   replacement_info |-> rep_info]

\* The form's "Leave days" entry.
LeaveAdjustment(leave_month, leave_days) ==
  [employee_left |-> FALSE, left_in_month |-> "", left_day |-> 0,
   left_year |-> "", leave_month |-> leave_month, leave_days |-> leave_days,
   replacement_info |-> NoReplacement]

\* ------------------------------------------------------- enumerated inputs

\* Replacement descriptors: a join inside the year, a join on the first day,
\* a join day past the month's working days, a month that is no abbreviation.
ReplacementChoices ==
  { Replacement("Rep", "R1", "Apr", 10, "2025"),
    Replacement("Rep", "R1", "Jun", 1, "2025"),
    Replacement("Rep", "R1", "Apr", 31, "2025"),
    Replacement("Rep", "R1", "Foo", 1, "2025") }

\* Exits: mid-month, a day past the working days (and past April's length),
\* the last month, an impossible date, a month that is no abbreviation.
ExitChoices ==
  { <<"Apr", 15>>, <<"Apr", 31>>, <<"Dec", 15>>, <<"Feb", 31>>, <<"Foo", 15>> }

\* What the form can build (src/app.py): a replacement only with an exit.
FormParams ==
  {NoAdjustment}
  \cup { ExitAdjustment(e[1], e[2], "2025", r) :
           e \in ExitChoices \ {<<"Foo", 15>>},
           r \in {NoReplacement} \cup (ReplacementChoices \ {Replacement("Rep", "R1", "Foo", 1, "2025")}) }
  \cup { LeaveAdjustment("Apr", 5), LeaveAdjustment("Apr", 30), LeaveAdjustment("Dec", 0) }

\* Dictionaries a caller of analyze_csv_bulk can pass that the form never builds.
DirectParams ==
  { ExitAdjustment("Foo", 15, "2025", r) : r \in {NoReplacement} \cup ReplacementChoices }
  \cup { ExitAdjustment(e[1], e[2], "2025", Replacement("Rep", "R1", "Foo", 1, "2025")) :
           e \in ExitChoices }
  \cup { [LeaveAdjustment("Apr", 5) EXCEPT
            !.replacement_info = Replacement("Rep", "R1", "Jun", 1, "2025")],
         [NoAdjustment EXCEPT
            !.replacement_info = Replacement("Rep", "R1", "Apr", 10, "2025")] }

ParamChoices == FormParams \cup DirectParams

\* The roster the primary datasets are drawn from.  B's file carries actuals
\* for April and September and text in June's cell.  TSR and PPM_ID are the
\* cells of the "TSR" and "PPM ID" columns as the file spells them, "" for
\* an empty cell.  A dataset's file has the columns named in its header, the
\* "Hexaware ID's" and "Empl Status" columns, and those of "PPM ID", "TSR",
\* "Start Date", "End date" and the monthly actuals that one of its rows
\* fills; it has no "Project" column.
RosterRow(resource) ==
  CASE resource = "A" ->
         [Resource |-> "A", Hexaware_ID |-> "H1", Deputation |-> "ONSITE",
          Rate |-> Num(45), Start_Date |-> <<>>, End_date |-> <<>>,
          Empl_Status |-> "Active", Actual |-> NoActuals,
          TSR |-> "101", PPM_ID |-> ""]
    [] resource = "B" ->
         [Resource |-> "B", Hexaware_ID |-> "H2", Deputation |-> "Offshore",
          Rate |-> Num(45), Start_Date |-> <<"2024", 1, 1>>,
          End_date |-> <<"2026", 3, 31>>, Empl_Status |-> "Active",
          Actual |-> [m \in MonthSet |->
                        CASE m = "Apr" -> Num(15225)
                          [] m = "Jun" -> Str
                          [] m = "Sep" -> Num(4000)
                          [] OTHER -> NaN],
          TSR |-> "102 B", PPM_ID |-> ""]
    [] resource = "C" ->
         [Resource |-> "C", Hexaware_ID |-> "H3", Deputation |-> "NEARSHORE",
          Rate |-> Num(60), Start_Date |-> <<>>, End_date |-> <<>>,
          Empl_Status |-> "Active", Actual |-> NoActuals,
          TSR |-> "", PPM_ID |-> ""]
    [] OTHER ->
         [Resource |-> "D", Hexaware_ID |-> "H4", Deputation |-> "REMOTE",
          Rate |-> Num(30), Start_Date |-> <<>>, End_date |-> <<>>,
          Empl_Status |-> "Active", Actual |-> NoActuals,
          TSR |-> "ABC", PPM_ID |-> ""]

Roster == {"A", "B", "C", "D"}

\* What a deputation cell can hold: the three classes in several spellings,
\* other texts, a padded name, a number, and the empty cell.
DeputationValues ==
  { "ONSITE", "onsite", "Onsite", "OFFSHORE", "offshore", "Offshore",
    "NEARSHORE", "nearshore", "NearShore", "REMOTE", "remote", "ONSITE ",
    "ON SITE", "5", "" }

\* Sequences of 1..MaxRows rows with distinct employees, in any order.
RECURSIVE Orderings(_, _)
Orderings(names, n) ==
  IF n = 0 THEN {<<>>}
  ELSE {<<>>} \cup
       UNION { { <<x>> \o s : s \in Orderings(names \ {x}, n - 1) } : x \in names }

Datasets ==
  { [i \in 1..Len(s) |-> RosterRow(s[i])] : s \in Orderings(Roster, MaxRows) \ {<<>>} }

\* Rows of the secondary dataset for one employee.
AugRowValues(resource) ==
  [Resource |-> resource,
   Actual |-> [m \in MonthSet |->
                 CASE m = "Apr" -> Num(10037)
                   [] m = "Jun" -> Num(8051)
                   [] OTHER -> NaN]]

AugRowBlank(resource) == [Resource |-> resource, Actual |-> NoActuals]

\* 120.50 hours in April: billed at 0.95 x 45 the month (5151.375) and, in a
\* year of 21-day months, the year (84153.375) lie halfway between two cents.
AugRowHalfCent(resource) ==
  [Resource |-> resource,
   Actual |-> [m \in MonthSet |-> IF m = "Apr" THEN Num(12050) ELSE NaN]]

\* 150.36 hours in April: of 2016 planned hours at 8 h/day the year's
\* 1998.36 are 99.125 %, halfway between two hundredths.
AugRowHalfPercent(resource) ==
  [Resource |-> resource,
   Actual |-> [m \in MonthSet |-> IF m = "Apr" THEN Num(15036) ELSE NaN]]

AugRowText(resource) ==
  [Resource |-> resource,
   Actual |-> [m \in MonthSet |-> IF m = "Apr" THEN Str ELSE NaN]]

\* The secondary datasets: none, one row, one employee on two rows, text.
AugFiles(resource) ==
  { <<>>,
    <<AugRowValues(resource)>>,
    <<AugRowValues(resource), AugRowBlank(resource)>>,
    <<AugRowBlank(resource), AugRowValues(resource)>>,
    <<AugRowText(resource)>> }

\* What a cell of the rate column can hold: nothing, a text float()
\* rejects, 0, and A's rate.
RateCells == {NaN, Str, Num(0), Num(45)}

\* Working-days configurations: the form's uniform 21, a partial dictionary
\* (the other months fall back to the default), one with two zero months and
\* one with no working day at all.
WorkingDaysConfigs ==
  { [m \in MonthSet |-> 21],
    [m \in {"Feb", "Apr", "Dec"} |->
       CASE m = "Feb" -> 20 [] m = "Apr" -> 10 [] OTHER -> 23],
    [m \in MonthSet |-> IF m \in {"Apr", "Jun"} THEN 0 ELSE 21],
    [m \in MonthSet |-> 0] }

\* ------------------------------------------------------------ the schema

\* str.strip() on the header names of the datasets.
Strip(name) ==
  CASE name = " Resource " -> "Resource"
    [] name = "Deputation " -> "Deputation"
    [] name = " Rate" -> "Rate"
    [] name = " TSR Code " -> "TSR Code"
    [] name = "TSR Name " -> "TSR Name"
    [] OTHER -> name

\* column_mapping of normalize_column_names, entry by entry; a name that is
\* no key of the mapping is kept.
NormalizeColumn(name) ==
  CASE name \in {"NAME", "Name", "name", "RESOURCE"} -> "Resource"
    [] name \in {"NEW_EMP_ID", "Hexaware ID's", "Employee ID"} -> "Hexaware ID's"
    [] name \in {"Rate", "RATE", "Average Rate"} -> "Average/Flat-lined Rate"
    [] name \in {"DEPUTATION", "deputation"} -> "Deputation"
    [] name \in {"Proj Desc", "PROJECT", "project"} -> "Project"
    [] name \in {"STATUS", "Status", "Employee Status"} -> "Empl Status"
    [] name \in {"TSR code", "tsr", "TSR Code"} -> "TSR"
    [] OTHER -> name

\* The header after df.columns.str.strip() and normalize_column_names(df).
NormalizedColumns(header) == {NormalizeColumn(Strip(name)) : name \in header}

\* validate_csv_columns: the message of the ValueError it raises, "" when it
\* raises none.  The first missing column found ends the validation.
ValidateCsvColumns(cols) ==
  IF "Resource" \notin cols
  THEN "Main CSV is missing 'Resource' or 'NAME' column"
  ELSE IF "Deputation" \notin cols
  THEN "Main CSV is missing 'Deputation' column"
  ELSE IF "Average/Flat-lined Rate" \notin cols
  THEN "Main CSV is missing 'Average/Flat-lined Rate' or 'Rate' column"
  ELSE ""

\* The header every dataset of the roster is written with.
StandardHeader == {"Resource", "Deputation", "Average/Flat-lined Rate"}

\* Headers of the primary dataset, one choice per mandatory column: its
\* name, a synonym, a padded name, a name the mapping does not know, or no
\* such column ("" stands for the column's absence).
Headers ==
  { {a, b, c} \ {""} :
      a \in {"Resource", "NAME", " Resource ", "resource", ""},
      b \in {"Deputation", "DEPUTATION", "Deputation ", "Dept", ""},
      c \in {"Average/Flat-lined Rate", "RATE", " Rate", "rate", ""} }

\* ------------------------------------------------- the "TSR" column

\* The texts that are integer literals, and the float each is read as when
\* its column is a float column.
IntegerTexts == {"101", "102", "999"}

AsFloatText(text) ==
  CASE text = "101" -> "101.0"
    [] text = "102" -> "102.0"
    [] text = "999" -> "999.0"
    [] OTHER -> text

\* The reader's type inference: a column whose cells are all integers stays
\* an integer column, one whose filled cells are all integers and that has
\* an empty cell becomes a float column, any other is a column of texts.
IsFloatColumn(cells) ==
  /\ \E i \in DOMAIN cells : cells[i] = ""
  /\ \E i \in DOMAIN cells : cells[i] # ""
  /\ \A i \in DOMAIN cells : cells[i] \in IntegerTexts \cup {""}

\* str() of the value the reader gives row i's cell of a code column.
ReadCodeCell(cells, i) ==
  IF IsFloatColumn(cells) THEN AsFloatText(cells[i]) ELSE cells[i]

\* Row i of the primary dataset as the reader hands it to the loop.
ReadRow(rows, i) ==
  [rows[i] EXCEPT
     !.TSR = ReadCodeCell([k \in DOMAIN rows |-> rows[k].TSR], i),
     !.PPM_ID = ReadCodeCell([k \in DOMAIN rows |-> rows[k].PPM_ID], i)]

\* ------------------------------------------------- the secondary dataset

\* One row's {month: actual_hours}: the months whose cell float() accepts.
AugRowDict(aug_row) ==
  [m \in {mm \in MonthSet : aug_row.Actual[mm].k = "num"} |-> aug_row.Actual[m].v]

\* The lookup {resource: {month: actual_hours}} built row by row; each row
\* starts its resource's entry afresh (aug_dict[resource_name] = {}).
RECURSIVE BuildAugDict(_, _)
BuildAugDict(aug_rows, n) ==
  IF n = 0 THEN <<>>
  ELSE LET before == BuildAugDict(aug_rows, n - 1)
           aug_row == aug_rows[n]
       IN  [r \in DOMAIN before \cup {aug_row.Resource} |->
              IF r = aug_row.Resource THEN AugRowDict(aug_row) ELSE before[r]]

\* ---------------------------------------------------- one month, original

\* The actual a dataset provides for (resource, month): the secondary
\* dataset first, then the primary one; provided is actual_from_csv and
\* updated says the month set "Updated From CSV2".
CsvActual(row, aug_dict, month) ==
  IF row.Resource \in DOMAIN aug_dict /\ month \in DOMAIN aug_dict[row.Resource]
  THEN [provided |-> TRUE, actual |-> aug_dict[row.Resource][month], updated |-> TRUE]
  ELSE IF row.Actual[month].k = "num"
  THEN [provided |-> TRUE, actual |-> row.Actual[month].v, updated |-> FALSE]
  ELSE [provided |-> FALSE, actual |-> 0, updated |-> FALSE]

\* round((days_worked / working_days) * standard_hours, 2)
PartialHours(days_worked, working_days, standard_hours) ==
  LET exact == days_worked * standard_hours
  IN  IF 2 * (exact % working_days) # working_days
      THEN RoundHalfEven(exact, working_days)
      ELSE Round2(SignedTimes(SignedOver(SignedInt(days_worked),
                                         SignedInt(working_days)),
                              SignedHundredths(standard_hours)))

\* Faulty variant of ComputedActual: the leave month counts the leave days as the
\* days worked.
ComputedActual_LeaveDaysWorked(params, month, working_days, standard_hours) ==
  IF params.employee_left
  THEN IF month = params.left_in_month
       THEN PartialHours(params.left_day, working_days, standard_hours)
       ELSE IF MonthsIndex(month) > MonthsIndex(params.left_in_month)
       THEN 0
       ELSE standard_hours
  ELSE IF params.leave_month # "" /\ month = params.leave_month
  THEN PartialHours(params.leave_days, working_days, standard_hours)
  ELSE standard_hours

\* The actual computed when no dataset provides one: standard hours, cut by
\* the exit (partial in the exit month, 0 after it) or else by the leave.
ComputedActual(params, month, working_days, standard_hours) ==
  IF params.employee_left
  THEN IF month = params.left_in_month
       THEN PartialHours(params.left_day, working_days, standard_hours)
       ELSE IF MonthsIndex(month) > MonthsIndex(params.left_in_month)
       THEN 0
       ELSE standard_hours
  ELSE IF params.leave_month # "" /\ month = params.leave_month
  THEN PartialHours(working_days - params.leave_days, working_days, standard_hours)
  ELSE standard_hours

\* Faulty variant of PlannedHours: planned is zeroed from the exit month on (>=).
PlannedHours_FromExitMonth(params, month, standard_hours) ==
  IF params.employee_left
     /\ MonthsIndex(month) >= MonthsIndex(params.left_in_month)
  THEN 0
  ELSE standard_hours

\* planned = standard_hours, 0 in the months after the exit month.
PlannedHours(params, month, standard_hours) ==
  IF params.employee_left /\ month # params.left_in_month
     /\ MonthsIndex(month) > MonthsIndex(params.left_in_month)
  THEN 0
  ELSE standard_hours

\* The exception the month's statements raise, "" when none: a division by
\* working_days = 0, or MONTHS.index of a month that is not in MONTHS.
MonthRaises(params, provided, month, working_days) ==
  IF ~provided /\ params.employee_left /\ month = params.left_in_month
     /\ working_days = 0
  THEN "ZeroDivisionError"
  ELSE IF params.employee_left /\ month # params.left_in_month
          /\ ~InMonths(params.left_in_month)
  THEN "ValueError"
  ELSE IF ~provided /\ ~params.employee_left /\ params.leave_month # ""
          /\ month = params.leave_month /\ working_days = 0
  THEN "ZeroDivisionError"
  ELSE ""

\* round(hours * deput_factor * avg_rate, 2) for a float hours that stands
\* for exact_hours hundredths: NaN when the rate is NaN.
Billed(exact_hours, hours, deput_factor, avg_rate) ==
  LET weighted == exact_hours * deput_factor
      part == (weighted % 100) * avg_rate.v
  IN  IF avg_rate.k # "num" THEN NaN
      ELSE IF part % 100 # 50
      THEN Num((weighted \div 100) * avg_rate.v + RoundHalfEven(part, 100))
      ELSE Num(Round2(SignedTimes(SignedTimes(hours, SignedHundredths(deput_factor)),
                                  SignedInt(avg_rate.v))))

\* round(actual * deput_factor * avg_rate, 2)
MonthlyBilling(actual, deput_factor, avg_rate) ==
  Billed(actual, SignedHundredths(actual), deput_factor, avg_rate)

\* The month's actual: the provided value verbatim, else the computed one.
MonthActual(row, params, wdc, aug_dict, month) ==
  LET csv == CsvActual(row, aug_dict, month)
      deput_hours == DeputHours(Upper(CellText(row.Deputation)))
  IN  IF csv.provided THEN csv.actual
      ELSE ComputedActual(params, month, WorkingDays(wdc, month),
                          StandardHours(wdc, month, deput_hours))

MonthPlanned(row, params, wdc, month) ==
  PlannedHours(params, month,
               StandardHours(wdc, month, DeputHours(Upper(CellText(row.Deputation)))))

\* -------------------------------------------------------------- records

\* Faulty variant of SumMonths: December is left out of the total.
SumMonths_WithoutDecember(col, n) ==
  col["Jan"] + col["Feb"] + col["Mar"] + col["Apr"] + col["May"] + col["Jun"]
  + col["Jul"] + col["Aug"] + col["Sep"] + col["Oct"] + col["Nov"]

\* Sum of a month-indexed column, in MONTHS order.
RECURSIVE SumMonths(_, _)
SumMonths(col, n) == IF n = 0 THEN 0 ELSE SumMonths(col, n - 1) + col[MONTHS[n]]

\* "End date" of the row's record: the exit date when MONTHS.index succeeds,
\* otherwise (except: pass) what the row carries.
ExitEndDate(row, params) ==
  IF params.employee_left /\ InMonths(params.left_in_month)
  THEN <<params.left_year, MonthsIndex(params.left_in_month) + 1, params.left_day>>
  ELSE row.End_date

\* "Start Date" of the replacement: the join date when MONTHS.index succeeds,
\* otherwise what the copied record carries.
JoinStartDate(record, rep_info) ==
  IF InMonths(rep_info.join_month)
  THEN <<rep_info.join_year, MonthsIndex(rep_info.join_month) + 1, rep_info.join_day>>
  ELSE record.Start_Date

\* The float a total ends as: total = 0, then total += col[month] for the
\* months in MONTHS order.  As long as the values added are whole quarters
\* the additions are exact and the total is the float of the exact sum.
RECURSIVE FloatSum(_, _)
FloatSum(col, n) ==
  IF n = 0 THEN Signed(FALSE, Zero)
  ELSE IF \A i \in 1..n : col[MONTHS[i]] % 25 = 0
  THEN SignedHundredths(SumMonths(col, n))
  ELSE SignedPlus(FloatSum(col, n - 1), SignedHundredths(col[MONTHS[n]]))

\* total = 0, then total += col[month] for the months in MONTHS order, never
\* rounded.  Values that are whole quarters are doubles and so is every sum
\* of them: the additions are exact; any other column is added float by
\* float, and the float total lies within a few units in the last place of
\* the exact sum, which is what it rounds to.
FloatTotal(col) ==
  IF \A m \in MonthSet : col[m] % 25 = 0
  THEN Num(SumMonths(col, Len(MONTHS)))
  ELSE CellOfRounded(FloatSum(col, Len(MONTHS)), SumMonths(col, Len(MONTHS)))

\* round((total_actual_hours / total_planned_hours) * 100, 2) of the totals
\* of the month columns actual and planned.
PercentOfPlanned(actual, planned) ==
  PercentRounded(SumMonths(actual, Len(MONTHS)), SumMonths(planned, Len(MONTHS)),
                 FloatSum(actual, Len(MONTHS)), FloatSum(planned, Len(MONTHS)))

\* round((total_actual / total_planned) * 100, 2) if total_planned else 0
Utilization(actual, planned) ==
  IF SumMonths(planned, Len(MONTHS)) # 0 THEN PercentOfPlanned(actual, planned)
  ELSE 0

\* round(total_actual_hours * deput_factor * avg_rate, 2)
BillingAmount(actual, deput_factor, avg_rate) ==
  Billed(SumMonths(actual, Len(MONTHS)), FloatSum(actual, Len(MONTHS)),
         deput_factor, avg_rate)

\* The exception the row's 12-month loop raises: that of its first month
\* that raises one, "" when none does.
RECURSIVE RowRaises(_, _, _, _, _)
RowRaises(row, params, wdc, aug_dict, n) ==
  IF n > Len(MONTHS) THEN ""
  ELSE LET month == MONTHS[n]
           e == MonthRaises(params, CsvActual(row, aug_dict, month).provided,
                            month, WorkingDays(wdc, month))
       IN  IF e # "" THEN e ELSE RowRaises(row, params, wdc, aug_dict, n + 1)

\* The record of one input row.
OriginalRecord(row, params, wdc, aug_dict) ==
  LET deput_factor == DeputFactor(Upper(CellText(row.Deputation)))
      avg_rate == AvgRate(row.Rate)
      planned == [m \in MonthSet |-> MonthPlanned(row, params, wdc, m)]
      actual == [m \in MonthSet |-> MonthActual(row, params, wdc, aug_dict, m)]
      total_planned_hours == SumMonths(planned, Len(MONTHS))
      total_actual_hours == FloatTotal(actual)
  IN  [Hexaware_ID |-> row.Hexaware_ID,
       Resource |-> row.Resource,
       Start_Date |-> row.Start_Date,
       End_date |-> ExitEndDate(row, params),
       Empl_Status |-> IF params.employee_left THEN "Inactive" ELSE row.Empl_Status,
       Rate |-> row.Rate,
       Deputation |-> row.Deputation,
       TSR |-> row.TSR,
       PPM_ID |-> row.PPM_ID,
       Planned |-> planned,
       Actual |-> actual,
       Billing |-> [m \in MonthSet |-> MonthlyBilling(actual[m], deput_factor, avg_rate)],
       Total_Planned_Hrs |-> total_planned_hours,
       Total_Actual_Hrs |-> total_actual_hours,
       Total_Planned_Vs_Actual_Diff |->
         total_planned_hours - SumMonths(actual, Len(MONTHS)),
       Utilization |-> Utilization(actual, planned),
       Billing_Amount |-> BillingAmount(actual, deput_factor, avg_rate),
       Updated_From_CSV2 |->
         IF \E m \in MonthSet : CsvActual(row, aug_dict, m).updated
         THEN "Yes" ELSE "No"]

\* ------------------------------------------------ one month, replacement

\* Faulty variant of ReplacementMonth: the join day itself is not worked.
ReplacementMonth_FromJoinDay(rep_info, month, working_days, standard_hours) ==
  IF MonthsIndex(month) < MonthsIndex(rep_info.join_month)
  THEN [planned |-> 0, actual |-> 0, billed |-> FALSE]
  ELSE IF month = rep_info.join_month
  THEN [planned |-> standard_hours,
        actual |-> PartialHours(working_days - rep_info.join_day,
                                working_days, standard_hours),
        billed |-> TRUE]
  ELSE [planned |-> standard_hours, actual |-> standard_hours, billed |-> TRUE]

\* [planned, actual] of the replacement in one month: nothing before the
\* join month, the days from the join day on in it, full hours after it.
ReplacementMonth(rep_info, month, working_days, standard_hours) ==
  IF MonthsIndex(month) < MonthsIndex(rep_info.join_month)
  THEN [planned |-> 0, actual |-> 0, billed |-> FALSE]
  ELSE IF month = rep_info.join_month
  THEN [planned |-> standard_hours,
        actual |-> PartialHours(working_days - (rep_info.join_day - 1),
                                working_days, standard_hours),
        billed |-> TRUE]
  ELSE [planned |-> standard_hours, actual |-> standard_hours, billed |-> TRUE]

\* The exception the replacement's loop raises, "" when none.
ReplacementRaises(rep_info, wdc) ==
  IF ~InMonths(rep_info.join_month) THEN "ValueError"
  ELSE IF WorkingDays(wdc, rep_info.join_month) = 0 THEN "ZeroDivisionError"
  ELSE ""

\* The replacement's record: a copy of the original's with its own identity,
\* dates and figures.
ReplacementRecord(record, row, rep_info, wdc) ==
  LET deput_hours == DeputHours(Upper(CellText(row.Deputation)))
      deput_factor == DeputFactor(Upper(CellText(row.Deputation)))
      avg_rate_new == AvgRate(record.Rate)
      fig == [m \in MonthSet |->
                ReplacementMonth(rep_info, m, WorkingDays(wdc, m),
                                 StandardHours(wdc, m, deput_hours))]
      planned == [m \in MonthSet |-> fig[m].planned]
      actual == [m \in MonthSet |-> fig[m].actual]
      total_planned_hours_new == SumMonths(planned, Len(MONTHS))
      total_actual_hours_new == FloatTotal(actual)
  IN  [record EXCEPT
         !.Resource = rep_info.replacement_name,
         !.Hexaware_ID = rep_info.replacement_id,
         !.Empl_Status = "Active",
         !.Updated_From_CSV2 = "No",
         !.Start_Date = JoinStartDate(record, rep_info),
         !.End_date = row.End_date,
         !.Planned = planned,
         !.Actual = actual,
         !.Billing = [m \in MonthSet |->
                        IF fig[m].billed
                        THEN MonthlyBilling(actual[m], deput_factor, avg_rate_new)
                        ELSE Num(0)],
         !.Total_Planned_Hrs = total_planned_hours_new,
         !.Total_Actual_Hrs = total_actual_hours_new,
         !.Total_Planned_Vs_Actual_Diff =
           total_planned_hours_new - SumMonths(actual, Len(MONTHS)),
         !.Utilization =
           IF total_planned_hours_new > 0
           THEN PercentOfPlanned(actual, planned)
           ELSE 0,
         !.Billing_Amount = BillingAmount(actual, deput_factor, avg_rate_new)]

\* Faulty variant of EmittedRecords: the replacement is appended before the original.
EmittedRecords_ReplacementFirst(record, row, rep_info, wdc) ==
  IF rep_info.replacement
  THEN <<ReplacementRecord(record, row, rep_info, wdc), record>>
  ELSE <<record>>

\* What one row appends to final_data: its record, then the replacement's
\* when rep_info.get("replacement") is truthy.
EmittedRecords(record, row, rep_info, wdc) ==
  IF rep_info.replacement
  THEN <<record, ReplacementRecord(record, row, rep_info, wdc)>>
  ELSE <<record>>

\* --------------------------------------- service rates (tsr_processor.py)

\* DEPUTATION_TO_COUNTRY.get(deputation, "USA"); OFFSHORE's entry is never
\* read, the selected country takes its place.
DEPUTATION_TO_COUNTRY ==
  ("ONSITE" :> "USA") @@ ("NEARSHORE" :> "India") @@ ("OFFSHORE" :> "Mexico")

\* {"INR": 0.012, "MXN": 0.058, "USD": 1.0}: multipliers are floats.
DEFAULT_EXCHANGE_RATES ==
  ("INR" :> FloatOfEntry(120)) @@ ("MXN" :> FloatOfEntry(580))
  @@ ("USD" :> FloatOfInt(1))

COUNTRY_TO_CURRENCY ==
  ("India" :> "INR") @@ ("Mexico" :> "MXN") @@ ("USA" :> "USD")
  @@ ("Philippines" :> "PHP") @@ ("Poland" :> "PLN") @@ ("Canada" :> "CAD")
  @@ ("Brazil" :> "BRL") @@ ("Argentina" :> "ARS")

\* No service-rate file was uploaded (tsr_file is None).
NoFile == [given |-> FALSE, readable |-> FALSE, header |-> {}, rows |-> <<>>]

\* A file the reader cannot parse.
UnreadableFile == [given |-> TRUE, readable |-> FALSE, header |-> {}, rows |-> <<>>]

\* A service-rate file: its header as the file spells it and its rows; a
\* row's Amount holds the cells of the currency columns (read only for the
\* currencies the header has).
TsrFile(header, rows) ==
  [given |-> TRUE, readable |-> TRUE, header |-> header, rows |-> rows]

\* The rows of the service-rate files: two rows for code 101 (the first one
\* counts), and a row for 102 with text in INR's cell, MXN's cell empty and
\* 500002.50 pesos of the Philippines, which at the page's 0.018 are
\* 9000.045 USD.  Amounts are in hundredths.
TsrRows ==
  << [Code |-> "101", Name |-> "Developer",
      Amount |-> ("INR" :> Num(500000)) @@ ("MXN" :> Num(123400))
                 @@ ("USD" :> Num(9500)) @@ ("PHP" :> Num(300000))],
     [Code |-> "102", Name |-> "Tester",
      Amount |-> ("INR" :> Str) @@ ("MXN" :> NaN)
                 @@ ("USD" :> Num(900000)) @@ ("PHP" :> Num(50000250))],
     [Code |-> "101", Name |-> "Duplicate",
      Amount |-> ("INR" :> Num(1)) @@ ("MXN" :> Num(1))
                 @@ ("USD" :> Num(1)) @@ ("PHP" :> Num(1))] >>

\* The uploads: none, a complete file, one with padded names and no MXN
\* column, one whose code column is spelled "TSR code", one without names,
\* and one the reader rejects.
TsrFiles ==
  { NoFile,
    TsrFile({"TSR Code", "TSR Name", "INR", "MXN", "USD"}, TsrRows),
    TsrFile({" TSR Code ", "TSR Name ", "INR", "USD", "PHP"}, TsrRows),
    TsrFile({"TSR code", "TSR Name", "INR", "MXN", "USD"}, TsrRows),
    TsrFile({"TSR Code", "INR", "MXN", "USD"}, TsrRows),
    UnreadableFile }

\* load_tsr_file: the exception it ends with, "" when it returns: the
\* reader's, or the ValueError for the required columns the stripped header
\* lacks.
LoadTsrRaises(file) ==
  LET cols == {Strip(name) : name \in file.header}
  IN  IF ~file.readable THEN "ParserError"
      ELSE IF {"TSR Code", "TSR Name"} \subseteq cols THEN ""
      ELSE IF "TSR Code" \notin cols /\ "TSR Name" \notin cols
      THEN "TSR file missing required columns: TSR Code, TSR Name"
      ELSE IF "TSR Code" \notin cols
      THEN "TSR file missing required columns: TSR Code"
      ELSE "TSR file missing required columns: TSR Name"

\* load_tsr_file's table: the rows under the stripped header.
LoadTsrFile(file) ==
  [columns |-> {Strip(name) : name \in file.header}, rows |-> file.rows]

\* tsr_code_str.split()[0] if ' ' in tsr_code_str else tsr_code_str
LeadingToken(text) ==
  CASE text = "102 B" -> "102"
    [] text = "101 A" -> "101"
    [] OTHER -> text

\* int(tsr_numeric): ok is FALSE when int() raises ValueError.
ParseInt(token) ==
  CASE token = "101" -> [ok |-> TRUE, n |-> 101]
    [] token = "102" -> [ok |-> TRUE, n |-> 102]
    [] token = "999" -> [ok |-> TRUE, n |-> 999]
    [] OTHER -> [ok |-> FALSE, n |-> 0]

\* str(n) of the codes int() accepts.
IntText(n) ==
  CASE n = 101 -> "101" [] n = 102 -> "102" [] n = 999 -> "999" [] OTHER -> ""

\* The positions of the table's rows whose code equals n, as a number or as
\* a text.
MatchingRows(tsr_df, n) ==
  {i \in DOMAIN tsr_df.rows : tsr_df.rows[i].Code = IntText(n)}

\* round(tsr_local * exchange_rate, 2) in hundredths: tsr_local is the
\* float of the cell (given here in hundredths), exchange_rate a float.
ConvertToUsd(tsr_local, exchange_rate) ==
  HundredthsOf(FloatTimes(FloatOfHundredths(tsr_local), exchange_rate))

\* The country whose currency the record is charged in.
TsrCountry(deputation, offshore_country) ==
  IF deputation = "OFFSHORE" THEN offshore_country
  ELSE IF deputation \in DOMAIN DEPUTATION_TO_COUNTRY
  THEN DEPUTATION_TO_COUNTRY[deputation]
  ELSE "USA"

\* COUNTRY_TO_CURRENCY.get(country, "USD")
TsrCurrency(country) ==
  IF country \in DOMAIN COUNTRY_TO_CURRENCY THEN COUNTRY_TO_CURRENCY[country]
  ELSE "USD"

\* Faulty variant of GetTsrAmountForEmployee: a code that parses but matches
\* no row takes the table's first row.
GetTsrAmountForEmployee_FirstRow(tsr_df, tsr_code, deputation, offshore_country, exchange_rates) ==
  LET parsed == ParseInt(LeadingToken(tsr_code))
      tsr_record == tsr_df.rows[1]
      currency == TsrCurrency(TsrCountry(Upper(CellText(deputation)), offshore_country))
  IN  IF tsr_code = "" \/ ~parsed.ok
      THEN [amount |-> 0, name |-> "", currency |-> ""]
      ELSE IF currency \notin tsr_df.columns \/ tsr_record.Amount[currency].k # "num"
      THEN [amount |-> 0, name |-> tsr_record.Name, currency |-> currency]
      ELSE [amount |->
              ConvertToUsd(tsr_record.Amount[currency].v,
                           IF currency \in DOMAIN exchange_rates
                           THEN exchange_rates[currency] ELSE FloatOfInt(1)),
            name |-> tsr_record.Name, currency |-> currency]

\* get_tsr_amount_for_employee: (tsr_amount_usd, tsr_name, currency_used).
GetTsrAmountForEmployee(tsr_df, tsr_code, deputation, offshore_country, exchange_rates) ==
  LET parsed == ParseInt(LeadingToken(tsr_code))
      found == MatchingRows(tsr_df, parsed.n)
      tsr_record == tsr_df.rows[CHOOSE i \in found : \A k \in found : i <= k]
      currency == TsrCurrency(TsrCountry(Upper(CellText(deputation)), offshore_country))
  IN  IF tsr_code = "" \/ ~parsed.ok \/ found = {}
      THEN [amount |-> 0, name |-> "", currency |-> ""]
      ELSE IF currency \notin tsr_df.columns \/ tsr_record.Amount[currency].k # "num"
      THEN [amount |-> 0, name |-> tsr_record.Name, currency |-> currency]
      ELSE [amount |->
              ConvertToUsd(tsr_record.Amount[currency].v,
                           IF currency \in DOMAIN exchange_rates
                           THEN exchange_rates[currency] ELSE FloatOfInt(1)),
            name |-> tsr_record.Name, currency |-> currency]

\* The record's service-rate code: the first filled cell among its "TSR"
\* and "PPM ID" columns, "" when both are empty.
TsrCodeOf(record) ==
  IF record.TSR # "" THEN record.TSR
  ELSE IF record.PPM_ID # "" THEN record.PPM_ID
  ELSE ""

\* One turn of add_tsr_to_dataframe's first loop: what it keeps of a row.
TsrOfRow(record, tsr_df, offshore_country, exchange_rates) ==
  LET tsr_code == TsrCodeOf(record)
      got == GetTsrAmountForEmployee(tsr_df, tsr_code, record.Deputation,
                                     offshore_country, exchange_rates)
  IN  [tsr_code |-> tsr_code, tsr_name |-> got.name,
       monthly |-> [m \in MonthSet |-> got.amount]]

\* new_df["Billing Amount"] - new_df["Total TSR"], a difference of floats
\* that is not rounded: NaN when the billing amount is NaN, exact when both
\* are whole quarters.
Dgm(billing_amount, total_tsr) ==
  IF billing_amount.k # "num" THEN NaN
  ELSE IF total_tsr.k = "num" /\ billing_amount.v % 25 = 0 /\ total_tsr.v % 25 = 0
  THEN Num(billing_amount.v - total_tsr.v)
  ELSE FloatCell(SignedMinus(SignedHundredths(billing_amount.v), DoubleOf(total_tsr)))

\* The quotient of round((DGM / Billing Amount) * 100, 2): DGM is the float
\* Billing Amount - Total TSR, Total TSR the float sum of the 12 amounts.
MarginPercent(billing_amount, monthly) ==
  LET billing == SignedHundredths(billing_amount.v)
      total_tsr == SumMonths(monthly, Len(MONTHS))
  IN  IF billing_amount.k # "num" THEN NaN
      ELSE Num(PercentRounded(billing_amount.v - total_tsr, billing_amount.v,
                              SignedMinus(billing, FloatSum(monthly, Len(MONTHS))),
                              billing))

\* Faulty variant of PercentDgm: no guard for a billing amount of 0 (the
\* quotient is then taken as 100).
PercentDgm_Unguarded(billing_amount, monthly) ==
  IF billing_amount # Num(0) THEN MarginPercent(billing_amount, monthly)
  ELSE Num(10000)

\* round((DGM / Billing Amount) * 100, 2) if Billing Amount != 0 else 0
PercentDgm(billing_amount, monthly) ==
  IF billing_amount # Num(0) THEN MarginPercent(billing_amount, monthly)
  ELSE Num(0)

\* Faulty variant of EnrichedRecord: the margin is written over the
\* record's Billing Amount.
EnrichedRecord_MarginAsBilling(record, tsr) ==
  [record EXCEPT !.Billing_Amount = Dgm(record.Billing_Amount, FloatTotal(tsr.monthly))]
    @@ ("TSR_Code" :> tsr.tsr_code) @@ ("TSR_Name" :> tsr.tsr_name)
    @@ ("Monthly_TSR" :> tsr.monthly) @@ ("Total_TSR" :> FloatTotal(tsr.monthly))
    @@ ("DGM" :> Dgm(record.Billing_Amount, FloatTotal(tsr.monthly)))
    @@ ("Pct_DGM" :> PercentDgm(record.Billing_Amount, tsr.monthly))

\* A row of the rebuilt table: the record's columns with the service-rate
\* columns, the total and the margin added.  Total TSR is the float the 12
\* additions of the month's amount leave and DGM the float difference;
\* neither is rounded here.
EnrichedRecord(record, tsr) ==
  LET total_tsr == FloatTotal(tsr.monthly)
  IN  [Hexaware_ID |-> record.Hexaware_ID,
       Resource |-> record.Resource,
       Start_Date |-> record.Start_Date,
       End_date |-> record.End_date,
       Empl_Status |-> record.Empl_Status,
       Rate |-> record.Rate,
       Deputation |-> record.Deputation,
       TSR |-> record.TSR,
       PPM_ID |-> record.PPM_ID,
       TSR_Code |-> tsr.tsr_code,
       TSR_Name |-> tsr.tsr_name,
       Planned |-> record.Planned,
       Actual |-> record.Actual,
       Billing |-> record.Billing,
       Monthly_TSR |-> tsr.monthly,
       Total_Planned_Hrs |-> record.Total_Planned_Hrs,
       Total_Actual_Hrs |-> record.Total_Actual_Hrs,
       Total_Planned_Vs_Actual_Diff |-> record.Total_Planned_Vs_Actual_Diff,
       Utilization |-> record.Utilization,
       Billing_Amount |-> record.Billing_Amount,
       Updated_From_CSV2 |-> record.Updated_From_CSV2,
       Total_TSR |-> total_tsr,
       DGM |-> Dgm(record.Billing_Amount, total_tsr),
       Pct_DGM |-> PercentDgm(record.Billing_Amount, tsr.monthly)]

\* The warning the page shows when the service-rate step fails with e, as
\* the parts of f"TSR processing error: {str(e)}. Continuing without TSR data."
WarningText(e) ==
  <<"TSR processing error: ", e, ". Continuing without TSR data.">>

\* The service-rate codes a dataset can carry: the roster's own; numbers
\* only; suffixed codes with C's code in the "PPM ID" column.
CodeSheets ==
  { [r \in Roster |-> [TSR |-> RosterRow(r).TSR, PPM_ID |-> RosterRow(r).PPM_ID]],
    [r \in Roster |->
       [TSR |-> CASE r = "A" -> "101" [] r = "B" -> "102" [] r = "C" -> ""
                  [] OTHER -> "999",
        PPM_ID |-> ""]],
    [r \in Roster |->
       [TSR |-> CASE r = "A" -> "101 A" [] r = "B" -> "102 B" [] r = "C" -> ""
                  [] OTHER -> "103B",
        PPM_ID |-> IF r = "C" THEN "102" ELSE ""]] }

\* The datasets of the roster under each code sheet.
CodedDatasets ==
  { [i \in 1..Len(names) |->
       [RosterRow(names[i]) EXCEPT !.TSR = sheet[names[i]].TSR,
                                   !.PPM_ID = sheet[names[i]].PPM_ID]] :
      names \in Orderings(Roster, MaxRows) \ {<<>>}, sheet \in CodeSheets }

\* The datasets whose first row is A with another content of its rate
\* cell, alone or followed by C.
RatedDatasets ==
  { <<[RosterRow("A") EXCEPT !.Rate = r]>> \o rest :
      r \in RateCells, rest \in {<<>>, <<RosterRow("C")>>} }

\* OFFSHORE_COUNTRIES of src/app.py: the options of the page's select box.
OFFSHORE_COUNTRIES ==
  <<"Mexico", "Philippines", "Poland", "Brazil", "Argentina", "Canada">>

\* offshore_currency = COUNTRY_TO_CURRENCY.get(offshore_country, "MXN")
OffshoreCurrency(offshore_country) ==
  IF offshore_country \in DOMAIN COUNTRY_TO_CURRENCY
  THEN COUNTRY_TO_CURRENCY[offshore_country]
  ELSE "MXN"

\* ------------------------------- exchange rates (convert_exchange_rate)

\* Faulty variant of convert_exchange_rate: the entry is returned as it is
\* under either convention.
convert_exchange_rate_AsEntered(rate_value, conversion_method) == rate_value

\* convert_exchange_rate(rate_value, conversion_method)
convert_exchange_rate(rate_value, conversion_method) ==
  IF conversion_method = "divide"
  THEN IF rate_value # Zero THEN OneOver(rate_value) ELSE Zero
  ELSE rate_value

\* The radio's options: "Divide (1 USD = X local)", where the page stands
\* when nothing is selected, and "Multiply (1 local = X USD)".
ConversionMethods == <<"divide", "multiply">>

\* The value the INR field starts with, in ten-thousandths: 82.25 rupees to
\* the dollar, or 0.012 dollars to the rupee.
DefaultInrRate(method) == IF method = "divide" THEN 822500 ELSE 120

\* The value the offshore currency's field starts with: 17.2 for MXN and
\* 55.5 for any other to the dollar, or 0.058 and 0.018 dollars.
DefaultOffshoreRate(method, offshore_currency) ==
  IF method = "divide"
  THEN (IF offshore_currency = "MXN" THEN 172000 ELSE 555000)
  ELSE (IF offshore_currency = "MXN" THEN 580 ELSE 180)

\* The multiplier the page keeps of a rate field that returned the float
\* rate: convert_exchange_rate(rate, "divide") under "divide", the float
\* itself under "multiply".
FieldMultiplier(rate, method) ==
  IF method = "divide" THEN convert_exchange_rate(rate, "divide") ELSE rate

\* exchange_rates as the page fills it: "INR" first, then the offshore
\* country's currency, then "USD" = 1.0; a later key replaces an earlier
\* equal one.
PageExchangeRates(method, inr_rate, offshore_currency, offshore_rate) ==
  ("USD" :> FloatOfInt(1))
  @@ (offshore_currency :> FieldMultiplier(FloatOfEntry(offshore_rate), method))
  @@ ("INR" :> FieldMultiplier(FloatOfEntry(inr_rate), method))

\* The configurations of a run for one country: the page as it comes up
\* (the first option of the radio, 82.25 and 17.2 or 55.5 in the fields, so
\* the multipliers 1 / 82.25 and 1 / 17.2 or 1 / 55.5), the radio set to
\* the second option with its fields left as they are (0.012 and 0.058 or
\* 0.018), and 0.0122 and 0.0575 typed in those.
ExchangeRateChoices(offshore_country) ==
  LET offshore_currency == OffshoreCurrency(offshore_country)
      Setting(method, inr_rate, offshore_rate) ==
        [conversion_method |-> method,
         exchange_rates |->
           PageExchangeRates(method, inr_rate, offshore_currency, offshore_rate)]
  IN  { Setting(ConversionMethods[i], DefaultInrRate(ConversionMethods[i]),
                DefaultOffshoreRate(ConversionMethods[i], offshore_currency)) :
          i \in DOMAIN ConversionMethods }
      \cup { Setting("multiply", 122, 575) }

\* working_days_config as the page fills it: 21 for every month, or a
\* number from 1 to 31 typed for each month.
PageWorkingDays ==
  { [m \in MonthSet |-> 21],
    [m \in MonthSet |->
       CASE m = "Feb" -> 20 [] m = "Apr" -> 31 [] m = "Jun" -> 1 [] OTHER -> 21] }

\* The largest whole rate entered.
MaxRate == 100

\* What is typed in a rate field, in ten-thousandths: the whole rates up to
\* MaxRate, the field's smallest value 0.0001 and the page's default values
\* 82.25, 17.2, 55.5, 0.012, 0.058 and 0.018.
RateEntries ==
  {1, 120, 180, 580, 172000, 555000, 822500}
    \cup {10000 * k : k \in 1..MaxRate}

\* What is typed in the offshore currency's field when the INR field has
\* been read: its default, 0.0575 or 49.
OffshoreEntries(method, offshore_currency) ==
  {DefaultOffshoreRate(method, offshore_currency), 575, 490000}

\* ---------------------------------------------------------------- state

VARIABLES
  columns,              \* the primary dataset's header, as the file spells it
  df,                   \* the primary dataset's rows
  employee_params,      \* {resource: adjustment}
  working_days_config,  \* {month: working days}
  aug_df,               \* the secondary dataset's rows, <<>> when there is none
  main_csv,             \* the primary upload object: its name and position
  aug_csv,              \* the secondary upload object, NoUpload when none
  params,               \* the loop's local: the adjustment of the row at hand
  aug_dict,             \* {resource: {month: actual}}
  row_idx,              \* the row the loop is at
  final_data,           \* the records appended so far
  final_df,             \* the table returned
  raised,               \* the exception that left analyze_csv_bulk, "" if none
  message,              \* the text of that exception where the model keeps it
  tsr_file,             \* the uploaded service-rate file, NoFile when none
  offshore_country,     \* the country selected for OFFSHORE
  exchange_rates,       \* {currency: multiplier}
  tsr_df,               \* the loaded service-rate table
  enrich_idx,           \* the row add_tsr_to_dataframe's first loop is at
  tsr_cols,             \* what that loop has kept of the rows so far
  result_df,            \* the table the page holds
  warning,              \* the warning the page shows, <<>> when none
  display_df,           \* the table the page displays and offers for download
  run,                  \* 1 in the first call of analyze_csv_bulk, 2 in a repeat
  first_run,            \* how the first call ended, once a second is made
  rate_field,           \* the rate field at hand: "INR" or "offshore"; "" when
                        \* convert_exchange_rate is called on its own
  rate_entry,           \* what the field holds, in ten-thousandths
  rate_value,           \* the float the field returns
  conversion_method,    \* "divide" or "multiply"
  multiplier,           \* what the conversion gave for rate_value
  recovered,            \* convert_exchange_rate(multiplier, "divide")
  pc                    \* "read", "rows", "done", "raised"; then "enrich",
                        \* "format", "shown", "failed"

tsr_inputs == <<tsr_file, offshore_country, exchange_rates>>

tsr_state == <<tsr_df, enrich_idx, tsr_cols, warning, display_df>>

vars ==
  <<columns, df, employee_params, working_days_config, aug_df, main_csv,
    aug_csv, params, aug_dict,
    row_idx, final_data, final_df, raised, message, tsr_file,
    offshore_country, exchange_rates, tsr_df, enrich_idx, tsr_cols, result_df,
    warning, display_df, run, first_run, rate_field, rate_entry, rate_value,
    conversion_method, multiplier, recovered, pc>>

earlier == <<run, first_run>>

rate_config ==
  <<rate_field, rate_entry, rate_value, conversion_method, multiplier, recovered>>

inputs == <<columns, df, employee_params, working_days_config, aug_df>>

uploads == <<main_csv, aug_csv>>

\* An upload object (a BytesIO with a name): the name and the position of
\* its stream, in lines.  The bytes are the dataset's, which nothing writes.
Upload(name, pos) == [name |-> name, pos |-> pos]

\* aug_csv = None
NoUpload == [name |-> "", pos |-> 0]

\* The position at the end of a file of a header line and the rows.
FileEnd(rows) == Len(rows) + 1

\* file.seek(offset)
Seek(file, offset) == [file EXCEPT !.pos = offset]

\* Uploads nothing has read yet.
FreshUploads ==
  /\ main_csv = Upload("main.csv", 0)
  /\ aug_csv = IF aug_df = <<>> THEN NoUpload ELSE Upload("aug.csv", 0)

\* The local params before the loop's first turn has bound it.
Unbound == [unbound |-> TRUE]

\* Faulty variant of ParamsFor: the default is not built for the row; an
\* employee with no entry is given what the turn before left in params.
ParamsFor_KeptFromLastTurn(adjustments, resource) ==
  IF resource \in DOMAIN adjustments THEN adjustments[resource]
  ELSE IF "unbound" \in DOMAIN params THEN NoAdjustment
  ELSE params

\* adjustments.get(resource, {...default...}), the default a dictionary
\* written out anew at every call of get.
ParamsFor(adjustments, resource) ==
  IF resource \in DOMAIN adjustments THEN adjustments[resource]
  ELSE NoAdjustment

\* No second call was made.
NoFirstRun ==
  [pc |-> "", final_df |-> <<>>, raised |-> "", message |-> "",
   alone |-> 0, before |-> 0]

\* What every call starts from.
Entry ==
  /\ aug_dict = <<>>
  /\ row_idx = 1
  /\ final_data = <<>>
  /\ final_df = <<>>
  /\ raised = ""
  /\ message = ""
  /\ tsr_df = [columns |-> {}, rows |-> <<>>]
  /\ enrich_idx = 1
  /\ tsr_cols = <<>>
  /\ result_df = <<>>
  /\ warning = <<>>
  /\ display_df = <<>>
  /\ run = 1
  /\ first_run = NoFirstRun
  /\ params = Unbound
  /\ pc = "read"

\* No rate field is being converted.
NoRateEntry ==
  /\ rate_field = ""
  /\ rate_entry = 0
  /\ rate_value = Zero
  /\ multiplier = Zero
  /\ recovered = Zero

\* No service-rate file is uploaded; the configuration is not shown.
NoTsrUpload ==
  /\ tsr_file = NoFile
  /\ offshore_country = "Mexico"
  /\ exchange_rates = DEFAULT_EXCHANGE_RATES

\* The radio, where it is not shown or not touched: its first option.
RadioUntouched == conversion_method = ConversionMethods[1]

\* A call of analyze_csv_bulk on a well-formed dataset: an adjustment for at
\* most one of its employees, a working-days configuration and a secondary
\* dataset about one of its employees.
RosterCall ==
  /\ columns = StandardHeader
  /\ df \in Datasets
  /\ working_days_config \in WorkingDaysConfigs
  /\ \E i \in 1..Len(df) :
       /\ employee_params \in
            {<<>>} \cup {[r \in {df[i].Resource} |-> p] : p \in ParamChoices}
       /\ aug_df \in AugFiles(df[i].Resource)
  /\ FreshUploads

\* A call on a one-row dataset under any of the headers.
HeaderCall ==
  /\ columns \in Headers
  /\ df \in {<<RosterRow(r)>> : r \in Roster}
  /\ working_days_config = [m \in MonthSet |-> 21]
  /\ employee_params = <<>>
  /\ aug_df = <<>>
  /\ FreshUploads

\* A call on one row whose deputation cell is any of DeputationValues.
DeputationCall ==
  /\ columns = StandardHeader
  /\ df \in {<<[RosterRow("A") EXCEPT !.Deputation = d]>> : d \in DeputationValues}
  /\ working_days_config \in
       { [m \in MonthSet |-> 21],
         [m \in {"Feb", "Apr", "Dec"} |->
            CASE m = "Feb" -> 20 [] m = "Apr" -> 10 [] OTHER -> 23] }
  /\ employee_params \in
       { <<>>,
         [r \in {"A"} |-> LeaveAdjustment("Apr", 5)],
         [r \in {"A"} |->
            ExitAdjustment("Apr", 15, "2025", Replacement("Rep", "R1", "Apr", 10, "2025"))] }
  /\ aug_df = <<>>
  /\ FreshUploads

\* A call on A's row with any content of its rate cell, alone or with C's
\* row, with or without an exit, and with April's hours taken from a
\* secondary dataset whose figures round at a tie.
RateCall ==
  /\ columns = StandardHeader
  /\ df \in RatedDatasets
  /\ working_days_config = [m \in MonthSet |-> 21]
  /\ employee_params \in
       { <<>>,
         [r \in {"A"} |->
            ExitAdjustment("Apr", 15, "2025", Replacement("Rep", "R1", "Apr", 10, "2025"))] }
  /\ aug_df \in {<<>>, <<AugRowHalfCent("A")>>, <<AugRowHalfPercent("A")>>}
  /\ FreshUploads

Init ==
  /\ Entry
  /\ NoRateEntry
  /\ NoTsrUpload
  /\ RadioUntouched
  /\ (RosterCall \/ HeaderCall \/ DeputationCall \/ RateCall)

\* The datasets are read, the primary one's header is normalized and
\* validated, the secondary one is turned into aug_dict, and the loop over
\* the rows is set up with an empty final_data.  Each upload is rewound
\* with seek(0) and read with getvalue(), which returns the whole buffer
\* wherever the position stands and leaves it there (no name of the model
\* ends in ".xlsx").
ReadInputs ==
  /\ pc = "read"
  /\ main_csv' = Seek(main_csv, 0)
  /\ LET msg == ValidateCsvColumns(NormalizedColumns(columns))
     IN  IF msg # ""
         THEN /\ raised' = "ValueError"
              /\ message' = msg
              /\ pc' = "raised"
              /\ UNCHANGED <<aug_csv, aug_dict, row_idx, final_data>>
         ELSE /\ aug_csv' = IF aug_csv = NoUpload THEN aug_csv ELSE Seek(aug_csv, 0)
              /\ aug_dict' = BuildAugDict(aug_df, Len(aug_df))
              /\ final_data' = <<>>
              /\ row_idx' = 1
              /\ pc' = "rows"
              /\ UNCHANGED <<raised, message>>
  /\ UNCHANGED <<inputs, params, earlier, rate_config, final_df, tsr_inputs, tsr_state, result_df>>

\* One turn of "for _, row in df.iterrows()": params is bound for the row,
\* then the row's record is built, then its replacement's; an exception
\* ends the call with what was appended so far.
ProcessRow ==
  /\ pc = "rows"
  /\ row_idx <= Len(df)
  /\ LET row == ReadRow(df, row_idx)
         bound == ParamsFor(employee_params, row.Resource)
         rep_info == bound.replacement_info
         err == RowRaises(row, bound, working_days_config, aug_dict, 1)
         record == OriginalRecord(row, bound, working_days_config, aug_dict)
         rep_err == ReplacementRaises(rep_info, working_days_config)
     IN  /\ params' = bound
         /\ IF err # ""
            THEN /\ raised' = err
                 /\ pc' = "raised"
                 /\ UNCHANGED <<final_data, row_idx>>
            ELSE IF rep_info.replacement /\ rep_err # ""
            THEN /\ final_data' = Append(final_data, record)
                 /\ raised' = rep_err
                 /\ pc' = "raised"
                 /\ UNCHANGED row_idx
            ELSE /\ final_data' =
                      final_data \o
                        EmittedRecords(record, row, rep_info, working_days_config)
                 /\ row_idx' = row_idx + 1
                 /\ UNCHANGED <<raised, pc>>
  /\ UNCHANGED <<inputs, uploads, earlier, rate_config, aug_dict, final_df, message, tsr_inputs, tsr_state, result_df>>

\* After the last row the records become the returned table, which the
\* caller keeps as its result.
Return ==
  /\ pc = "rows"
  /\ row_idx > Len(df)
  /\ final_df' = final_data
  /\ result_df' = final_data
  /\ pc' = "done"
  /\ UNCHANGED <<inputs, uploads, params, earlier, rate_config, aug_dict, row_idx, final_data, raised, message,
                 tsr_inputs, tsr_state>>

Next == ReadInputs \/ ProcessRow \/ Return

Spec == Init /\ [][Next]_vars

\* --------------------------------------------------------- a second call
\* analyze_csv_bulk is called a second time.  What lasts from one call to
\* the next is what the caller holds: the upload objects, with the position
\* the first call left them at, and the dictionaries employee_params and
\* working_days_config.  The locals of the first call are gone, and the
\* second binds its own.

\* The adjustments of the calls that are followed by a second: none, an
\* exit with and without a replacement, an exit in a month that is no
\* abbreviation, and a leave.
RepeatParams ==
  { NoAdjustment,
    ExitAdjustment("Apr", 15, "2025", NoReplacement),
    ExitAdjustment("Apr", 15, "2025", Replacement("Rep", "R1", "Apr", 10, "2025")),
    ExitAdjustment("Foo", 15, "2025", NoReplacement),
    LeaveAdjustment("Apr", 5) }

\* A call that is followed by a second: a dataset of the roster under the
\* standard header or one without the rate column, the uniform, the partial
\* or the zero-month working days, an adjustment for at most one employee
\* and a secondary dataset about that employee, each upload fresh or read
\* to its end by the caller.
RepeatCall ==
  /\ columns \in {StandardHeader, {"Resource", "Deputation"}}
  /\ df \in Datasets
  /\ working_days_config \in
       {w \in WorkingDaysConfigs : \E m \in DOMAIN w : w[m] > 0}
  /\ \E i \in 1..Len(df) :
       /\ employee_params \in
            {<<>>} \cup {[r \in {df[i].Resource} |-> p] : p \in RepeatParams}
       /\ aug_df \in
            { <<>>,
              <<AugRowValues(df[i].Resource)>>,
              <<AugRowValues(df[i].Resource), AugRowBlank(df[i].Resource)>> }
  /\ main_csv \in {Upload("main.csv", pos) : pos \in {0, FileEnd(df)}}
  /\ aug_csv \in IF aug_df = <<>> THEN {NoUpload}
                ELSE {Upload("aug.csv", pos) : pos \in {0, FileEnd(aug_df)}}

RepeatInit ==
  /\ Entry
  /\ NoRateEntry
  /\ NoTsrUpload
  /\ RadioUntouched
  /\ RepeatCall

\* The locals of a call that has just been entered.
NewFrame ==
  /\ aug_dict' = <<>>
  /\ row_idx' = 1
  /\ final_data' = <<>>
  /\ params' = Unbound
  /\ final_df' = <<>>
  /\ raised' = ""
  /\ message' = ""
  /\ pc' = "read"

\* "Process Data" pressed twice on the same page: the second call has the
\* arguments of the first, the same objects.
RunAgain ==
  /\ pc \in {"done", "raised"}
  /\ run = 1
  /\ first_run' = [pc |-> pc, final_df |-> final_df, raised |-> raised,
                   message |-> message, alone |-> 0, before |-> 0]
  /\ run' = 2
  /\ NewFrame
  /\ UNCHANGED <<inputs, uploads, rate_config, tsr_inputs, tsr_state, result_df>>

\* The number of records the rows before row k leave in a call that
\* returns: one for the row, one more for its replacement.
RECURSIVE RecordsBefore(_)
RecordsBefore(k) ==
  IF k = 1 THEN 0
  ELSE RecordsBefore(k - 1)
       + (IF ParamsFor(employee_params, df[k - 1].Resource).replacement_info.replacement
          THEN 2 ELSE 1)

\* After a call on several rows has returned, the file of one of its rows
\* alone is uploaded and processed with the same dictionaries and the same
\* secondary upload.
RunAlone ==
  /\ pc = "done"
  /\ run = 1
  /\ Len(df) > 1
  /\ \E k \in DOMAIN df :
       /\ df' = <<df[k]>>
       /\ first_run' = [pc |-> pc, final_df |-> final_df, raised |-> raised,
                        message |-> message, alone |-> k,
                        before |-> RecordsBefore(k)]
  /\ main_csv' = Upload("row.csv", 0)
  /\ run' = 2
  /\ NewFrame
  /\ UNCHANGED <<columns, employee_params, working_days_config, aug_df, aug_csv,
                 rate_config, tsr_inputs, tsr_state, result_df>>

RepeatNext == ReadInputs \/ ProcessRow \/ Return \/ RunAgain \/ RunAlone

RepeatSpec == RepeatInit /\ [][RepeatNext]_vars

\* ------------------------------------------- the page's processing step
\* "Process Data" of src/app.py with a service-rate upload: the billing
\* result, then the service-rate step inside its own try/except, then the
\* display.

\* The service-rate upload with the configuration the page shows for it:
\* a country of the select box and the rate fields.
TsrUpload ==
  /\ \E i \in DOMAIN OFFSHORE_COUNTRIES :
       /\ offshore_country = OFFSHORE_COUNTRIES[i]
       /\ \E setting \in ExchangeRateChoices(OFFSHORE_COUNTRIES[i]) :
            /\ conversion_method = setting.conversion_method
            /\ exchange_rates = setting.exchange_rates
  /\ tsr_file \in TsrFiles \ {NoFile}

\* A run of the page: a dataset under one of the code sheets or with
\* another rate cell, no adjustment or an exit with a replacement for its
\* first employee, the working days of the page, and the service-rate
\* upload with its configuration or none.
AppCall ==
  /\ ((NoTsrUpload /\ RadioUntouched) \/ TsrUpload)
  /\ columns = StandardHeader
  /\ df \in CodedDatasets \cup RatedDatasets
  /\ working_days_config \in PageWorkingDays
  /\ employee_params \in
       { <<>>,
         [r \in {df[1].Resource} |->
            ExitAdjustment("Apr", 15, "2025", Replacement("Rep", "R1", "Apr", 10, "2025"))] }
  /\ aug_df = <<>>
  /\ FreshUploads

AppInit == AppCall /\ Entry /\ NoRateEntry

\* tsr_df = load_tsr_file(tsr_file); an exception goes to the except clause:
\* the warning is shown and result_df is what it was.
LoadTsr ==
  /\ pc = "done"
  /\ tsr_file.given
  /\ LET e == LoadTsrRaises(tsr_file)
     IN  IF e # ""
         THEN /\ warning' = WarningText(e)
              /\ pc' = "format"
              /\ UNCHANGED <<tsr_df, enrich_idx, tsr_cols>>
         ELSE /\ tsr_df' = LoadTsrFile(tsr_file)
              /\ enrich_idx' = 1
              /\ tsr_cols' = <<>>
              /\ pc' = "enrich"
              /\ UNCHANGED warning
  /\ UNCHANGED <<inputs, uploads, params, earlier, rate_config, aug_dict, row_idx, final_data, final_df, raised,
                 message, tsr_inputs, result_df, display_df>>

\* No upload: the service-rate step is skipped.
SkipTsr ==
  /\ pc = "done"
  /\ ~tsr_file.given
  /\ pc' = "format"
  /\ UNCHANGED <<inputs, uploads, params, earlier, rate_config, aug_dict, row_idx, final_data, final_df, raised,
                 message, tsr_inputs, tsr_state, result_df>>

\* One turn of "for idx, row in enhanced_df.iterrows()" (a copy of the
\* billing result): the row's code, name and monthly amounts are kept.
EnrichRow ==
  /\ pc = "enrich"
  /\ enrich_idx <= Len(result_df)
  /\ tsr_cols' =
       Append(tsr_cols,
              TsrOfRow(result_df[enrich_idx], tsr_df, offshore_country, exchange_rates))
  /\ enrich_idx' = enrich_idx + 1
  /\ UNCHANGED <<inputs, uploads, params, earlier, rate_config, aug_dict, row_idx, final_data, final_df, raised,
                 message, tsr_inputs, tsr_df, result_df, warning, display_df, pc>>

\* The table is rebuilt with the service-rate columns, Total TSR, DGM and
\* %DGM, and returned to the page.
RebuildTable ==
  /\ pc = "enrich"
  /\ enrich_idx > Len(result_df)
  /\ result_df' =
       [i \in DOMAIN result_df |-> EnrichedRecord(result_df[i], tsr_cols[i])]
  /\ pc' = "format"
  /\ UNCHANGED <<inputs, uploads, params, earlier, rate_config, aug_dict, row_idx, final_data, final_df, raised,
                 message, tsr_inputs, tsr_state>>

\* The floats the reader makes of the integers of a column with an empty
\* cell, as texts.
FloatTexts == {AsFloatText(text) : text \in IntegerTexts}

\* result_df[col].dtype is float64 and the column holds a NaN, for the
\* columns whose name has none of "Billing", "TSR", "DGM": the "PPM ID"
\* column when it holds floats beside empty cells, the rate column when
\* it holds no text and an empty cell, the deputation column when it holds
\* nothing but numbers and empty cells.  The other such columns hold texts
\* or hours, which are never NaN.
NanInNumericColumn(table) ==
  \/ /\ \E i \in DOMAIN table : table[i].PPM_ID = ""
     /\ \E i \in DOMAIN table : table[i].PPM_ID \in FloatTexts
     /\ \A i \in DOMAIN table : table[i].PPM_ID \in FloatTexts \cup {""}
  \/ /\ \E i \in DOMAIN table : table[i].Rate.k = "nan"
     /\ \A i \in DOMAIN table : table[i].Rate.k # "str"
  \/ /\ \E i \in DOMAIN table : table[i].Deputation = ""
     /\ \A i \in DOMAIN table : table[i].Deputation \in {"5", ""}

\* A record after "Format numeric columns": the columns with "Billing",
\* "TSR" or "DGM" in their name are rounded with .round(2), and every cell
\* x of another numeric column becomes int(x) if x == int(x) else
\* round(x, 2).  The figures the engine rounded are left as they are; the
\* totals it did not round (Total Actual Hrs, Total TSR and DGM where the
\* record has them) are rounded here.
FormattedRecord(record) ==
  IF "Total_TSR" \in DOMAIN record
  THEN [record EXCEPT !.Total_Actual_Hrs = RoundedCell(@),
                      !.Total_TSR = RoundedCell(@),
                      !.DGM = RoundedCell(@)]
  ELSE [record EXCEPT !.Total_Actual_Hrs = RoundedCell(@)]

\* "Format numeric columns", column by column on result_df itself: int()
\* of a NaN raises ValueError, which the page shows as "Processing error:
\* ..." in place of the table (the NaN is in a column of the dataset, which
\* comes before the totals: no total is rounded yet).  Otherwise the table
\* is displayed (display_df, a copy) and offered for download.
Display ==
  /\ pc = "format"
  /\ IF NanInNumericColumn(result_df)
     THEN /\ raised' = "ValueError"
          /\ message' = "cannot convert float NaN to integer"
          /\ pc' = "failed"
          /\ UNCHANGED <<result_df, display_df>>
     ELSE /\ result_df' = [i \in DOMAIN result_df |-> FormattedRecord(result_df[i])]
          /\ display_df' = result_df'
          /\ pc' = "shown"
          /\ UNCHANGED <<raised, message>>
  /\ UNCHANGED <<inputs, uploads, params, earlier, rate_config, aug_dict, row_idx, final_data, final_df,
                 tsr_inputs, tsr_df, enrich_idx, tsr_cols, warning>>

AppNext ==
  \/ ReadInputs \/ ProcessRow \/ Return
  \/ LoadTsr \/ SkipTsr \/ EnrichRow \/ RebuildTable \/ Display

AppSpec == AppInit /\ [][AppNext]_vars

\* ------------------------------------------- the exchange-rate fields
\* The rate fields the page shows under a service-rate upload: each field's
\* entry is converted under the selected convention and kept in
\* exchange_rates.  convert_exchange_rate is also called on its own, and
\* under "divide" on what a conversion gave.

\* Nothing is uploaded and nothing is processed.
Idle ==
  /\ columns = StandardHeader
  /\ df = <<>>
  /\ employee_params = <<>>
  /\ working_days_config = [m \in MonthSet |-> 21]
  /\ aug_df = <<>>
  /\ main_csv = NoUpload
  /\ aug_csv = NoUpload
  /\ aug_dict = <<>>
  /\ row_idx = 1
  /\ final_data = <<>>
  /\ final_df = <<>>
  /\ raised = ""
  /\ message = ""
  /\ tsr_df = [columns |-> {}, rows |-> <<>>]
  /\ enrich_idx = 1
  /\ tsr_cols = <<>>
  /\ result_df = <<>>
  /\ warning = <<>>
  /\ display_df = <<>>
  /\ run = 1
  /\ first_run = NoFirstRun
  /\ params = Unbound

\* The page with a service-rate upload comes to its rate fields with an
\* empty exchange_rates; a rate is typed in the INR field.
FieldEntry ==
  /\ tsr_file \in TsrFiles \ {NoFile}
  /\ \E i \in DOMAIN OFFSHORE_COUNTRIES : offshore_country = OFFSHORE_COUNTRIES[i]
  /\ exchange_rates = <<>>
  /\ rate_field = "INR"
  /\ rate_entry \in RateEntries
  /\ rate_value = Zero
  /\ pc = "typed"

\* convert_exchange_rate is called on its own, with no page: with the float
\* of a rate, or with 0.0, which no field of the page returns
\* (min_value = 0.0001).
DirectCall ==
  /\ NoTsrUpload
  /\ rate_field = ""
  /\ rate_entry \in {0} \cup RateEntries
  /\ rate_value = FloatOfEntry(rate_entry)
  /\ pc = "called"

RateInit ==
  /\ Idle
  /\ conversion_method \in {"divide", "multiply"}
  /\ multiplier = Zero
  /\ recovered = Zero
  /\ (FieldEntry \/ DirectCall)

\* The key of exchange_rates a field fills.
FieldCurrency(field, country) ==
  IF field = "INR" THEN "INR" ELSE OffshoreCurrency(country)

\* The number-input field returns what was typed as a float.
NumberInput ==
  /\ pc = "typed"
  /\ rate_value' = FloatOfEntry(rate_entry)
  /\ pc' = "entered"
  /\ UNCHANGED <<inputs, uploads, params, earlier, rate_field, rate_entry,
                 conversion_method, multiplier, recovered, aug_dict, row_idx,
                 final_data, final_df, raised, message, tsr_inputs, tsr_state,
                 result_df>>

\* The page keeps the field's multiplier in exchange_rates under the
\* field's currency.
ConvertRate ==
  /\ pc = "entered"
  /\ multiplier' = FieldMultiplier(rate_value, conversion_method)
  /\ exchange_rates' =
       (FieldCurrency(rate_field, offshore_country) :> multiplier')
         @@ exchange_rates
  /\ pc' = "converted"
  /\ UNCHANGED <<inputs, uploads, params, earlier, rate_field, rate_entry,
                 rate_value, conversion_method, recovered, aug_dict, row_idx,
                 final_data, final_df, raised, message, tsr_file,
                 offshore_country, tsr_state, result_df>>

\* After the INR field the page comes to the offshore currency's field.
OffshoreField ==
  /\ pc = "converted"
  /\ rate_field = "INR"
  /\ rate_field' = "offshore"
  /\ rate_entry' \in
       OffshoreEntries(conversion_method, OffshoreCurrency(offshore_country))
  /\ rate_value' = Zero
  /\ multiplier' = Zero
  /\ pc' = "typed"
  /\ UNCHANGED <<inputs, uploads, params, earlier, conversion_method,
                 recovered, aug_dict, row_idx, final_data, final_df, raised,
                 message, tsr_inputs, tsr_state, result_df>>

\* After the two fields: exchange_rates["USD"] = 1.0, and the dictionary is
\* the configuration's.
UsdRate ==
  /\ pc = "converted"
  /\ rate_field = "offshore"
  /\ exchange_rates' = ("USD" :> FloatOfInt(1)) @@ exchange_rates
  /\ pc' = "configured"
  /\ UNCHANGED <<inputs, uploads, params, earlier, rate_config, aug_dict,
                 row_idx, final_data, final_df, raised, message, tsr_file,
                 offshore_country, tsr_state, result_df>>

\* The call of convert_exchange_rate on its own returns.
CallConvert ==
  /\ pc = "called"
  /\ multiplier' = convert_exchange_rate(rate_value, conversion_method)
  /\ pc' = "returned"
  /\ UNCHANGED <<inputs, uploads, params, earlier, rate_field, rate_entry,
                 rate_value, conversion_method, recovered, aug_dict, row_idx,
                 final_data, final_df, raised, message, tsr_inputs, tsr_state,
                 result_df>>

\* convert_exchange_rate is called under "divide" on what a conversion gave.
ConvertBack ==
  /\ pc \in {"converted", "returned"}
  /\ recovered' = convert_exchange_rate(multiplier, "divide")
  /\ pc' = "recovered"
  /\ UNCHANGED <<inputs, uploads, params, earlier, rate_field, rate_entry,
                 rate_value, conversion_method, multiplier, aug_dict, row_idx,
                 final_data, final_df, raised, message, tsr_inputs, tsr_state,
                 result_df>>

RateNext ==
  \/ NumberInput \/ ConvertRate \/ OffshoreField \/ UsdRate
  \/ CallConvert \/ ConvertBack

RateSpec == RateInit /\ [][RateNext]_vars

\* ------------------------------------------------------------ properties
\* What the properties are stated in: the specification's own tables and
\* the raw datasets, not the engine's intermediate values.

\* The emitted records of input rows (the replacement is named otherwise).
Originals == {j \in DOMAIN final_data : final_data[j].Resource \in Roster}

Replacements == {j \in DOMAIN final_data : final_data[j].Resource \notin Roster}

RowOf(resource) == df[CHOOSE i \in DOMAIN df : df[i].Resource = resource]

AdjustmentOf(resource) == ParamsFor(employee_params, resource)

\* Calendar index of a month abbreviation, 1..12.
MonthNo(m) == CHOOSE i \in 1..Len(MONTHS) : MONTHS[i] = m

\* workingDays(month): the configured count, 21 where none is configured.
Wd(m) == IF m \in DOMAIN working_days_config THEN working_days_config[m] ELSE 21

\* The class a deputation text names, whatever its case.
DeputationClass(deputation) ==
  CASE deputation \in {"ONSITE", "onsite", "Onsite"} -> "ONSITE"
    [] deputation \in {"OFFSHORE", "offshore", "Offshore"} -> "OFFSHORE"
    [] deputation \in {"NEARSHORE", "nearshore", "NearShore"} -> "NEARSHORE"
    [] OTHER -> "none"

\* hoursPerDay(deputation), case-insensitive, in hundredths.
HoursPerDay(deputation) ==
  CASE DeputationClass(deputation) = "ONSITE" -> 800
    [] DeputationClass(deputation) = "OFFSHORE" -> 875
    [] DeputationClass(deputation) = "NEARSHORE" -> 900
    [] OTHER -> 800

\* billingFactor(deputation), case-insensitive, in hundredths.
BillingFactor(deputation) ==
  CASE DeputationClass(deputation) = "ONSITE" -> 95
    [] DeputationClass(deputation) = "OFFSHORE" -> 88
    [] DeputationClass(deputation) = "NEARSHORE" -> 90
    [] OTHER -> 100

\* standardHours of a row in a month.
Std(row, m) == Wd(m) * HoursPerDay(row.Deputation)

\* Some row of the secondary dataset holds a numeric actual for (resource, m).
SecondaryGives(resource, m) ==
  \E k \in DOMAIN aug_df :
    aug_df[k].Resource = resource /\ aug_df[k].Actual[m].k = "num"

\* The primary dataset's "{Mon} Actual" cell of the row holds a numeric value.
PrimaryGives(row, m) == row.Actual[m].k = "num"

Provided(row, m) == SecondaryGives(row.Resource, m) \/ PrimaryGives(row, m)

NoAdjust(p) == ~p.employee_left /\ p.leave_month = ""

\* Length of a month of 2025 and validity of a (month, day) of that year.
DaysInMonth(n) ==
  CASE n = 2 -> 28 [] n \in {4, 6, 9, 11} -> 30 [] OTHER -> 31

ValidDate(month, day) ==
  InMonths(month) /\ day >= 1 /\ day <= DaysInMonth(MonthNo(month))

\* C1: whenever the secondary dataset supplies a numeric actual for an
\* employee and a month, the record's actual for that month is that value,
\* whatever the adjustment, and 'Updated From CSV2' is 'Yes'.
C1_OverridePrecedence ==
  \A j \in Originals : \A k \in DOMAIN aug_df : \A m \in MonthSet :
    LET rec == final_data[j]
    IN  (aug_df[k].Resource = rec.Resource /\ aug_df[k].Actual[m].k = "num")
          => /\ rec.Actual[m] = aug_df[k].Actual[m].v
             /\ rec.Updated_From_CSV2 = "Yes"

\* C2: with no adjustment, in every month for which neither dataset provides
\* an actual, planned = actual = workingDays x hoursPerDay and the month's
\* billing = round(actual x billingFactor x rate, 2): the rounded product
\* for a row whose rate cell holds a rate, not a number for a row whose rate
\* cell is empty.
C2_Baseline ==
  \A j \in Originals : \A m \in MonthSet :
    LET rec == final_data[j]
        row == RowOf(rec.Resource)
    IN  (NoAdjust(AdjustmentOf(rec.Resource)) /\ ~Provided(row, m))
          => /\ rec.Planned[m] = Std(row, m)
             /\ rec.Actual[m] = Std(row, m)
             /\ row.Rate.k = "num"
                  => rec.Billing[m] =
                       Num(RoundHalfEven(Std(row, m) * BillingFactor(row.Deputation)
                                           * row.Rate.v,
                                         100))
             /\ row.Rate.k = "nan" => rec.Billing[m] = NaN

\* C2 witness: an unconfigured employee of unknown deputation under the
\* partial configuration: February has 20 days of 8 hours billed at 1 x 30.
C2_Witness ==
  \E j \in Originals :
    /\ final_data[j].Resource = "D"
    /\ employee_params = <<>>
    /\ working_days_config = [m \in {"Feb", "Apr", "Dec"} |->
                                CASE m = "Feb" -> 20 [] m = "Apr" -> 10 [] OTHER -> 23]
    /\ final_data[j].Actual["Feb"] = 16000
    /\ final_data[j].Planned["Feb"] = 16000
    /\ final_data[j].Billing["Feb"] = Num(480000)
    /\ final_data[j].Actual["Jan"] = 16800

\* C3: with an exit, in every month with no provided actual: before the exit
\* month planned = actual = standardHours; in it planned = standardHours and
\* actual = round(standardHours x exitDay / workingDays, 2); after it both 0.
C3_ExitPolicy ==
  \A j \in Originals : \A m \in MonthSet :
    LET rec == final_data[j]
        row == RowOf(rec.Resource)
        p == AdjustmentOf(rec.Resource)
    IN  (p.employee_left /\ ~Provided(row, m))
          => IF MonthNo(m) < MonthNo(p.left_in_month)
             THEN rec.Planned[m] = Std(row, m) /\ rec.Actual[m] = Std(row, m)
             ELSE IF m = p.left_in_month
             THEN /\ rec.Planned[m] = Std(row, m)
                  /\ rec.Actual[m] = RoundHalfEven(Std(row, m) * p.left_day, Wd(m))
             ELSE rec.Planned[m] = 0 /\ rec.Actual[m] = 0

\* C3 witness: exit on day 15 of a 21-day April at 8 h/day: 120.00 of 168.00,
\* full hours in March, nothing from May on.
C3_Witness ==
  \E j \in Originals :
    /\ final_data[j].Resource = "A"
    /\ AdjustmentOf("A").employee_left
    /\ AdjustmentOf("A").left_in_month = "Apr"
    /\ AdjustmentOf("A").left_day = 15
    /\ aug_df = <<>>
    /\ final_data[j].Planned["Apr"] = 16800
    /\ final_data[j].Actual["Apr"] = 12000
    /\ final_data[j].Actual["Mar"] = 16800
    /\ final_data[j].Planned["May"] = 0
    /\ final_data[j].Actual["Dec"] = 0

\* C4 as stated: with a leave (no exit) and no provided actual in the leave
\* month, that month's actual = round(standardHours x (workingDays -
\* leaveDays) / workingDays, 2), planned = standardHours in every month, and
\* every other month's actual = standardHours.
C4_LeavePolicyEveryOtherMonth ==
  \A j \in Originals :
    LET rec == final_data[j]
        row == RowOf(rec.Resource)
        p == AdjustmentOf(rec.Resource)
        lm == p.leave_month
    IN  (~p.employee_left /\ lm \in MonthSet /\ ~Provided(row, lm))
          => /\ rec.Actual[lm] =
                  RoundHalfEven(Std(row, lm) * (Wd(lm) - p.leave_days), Wd(lm))
             /\ \A m \in MonthSet : rec.Planned[m] = Std(row, m)
             /\ \A m \in MonthSet \ {lm} : rec.Actual[m] = Std(row, m)

\* C4 amended: as above, except that only the other months with no provided
\* actual have actual = standardHours.
C4_LeavePolicy ==
  \A j \in Originals :
    LET rec == final_data[j]
        row == RowOf(rec.Resource)
        p == AdjustmentOf(rec.Resource)
        lm == p.leave_month
    IN  (~p.employee_left /\ lm \in MonthSet /\ ~Provided(row, lm))
          => /\ rec.Actual[lm] =
                  RoundHalfEven(Std(row, lm) * (Wd(lm) - p.leave_days), Wd(lm))
             /\ \A m \in MonthSet : rec.Planned[m] = Std(row, m)
             /\ \A m \in MonthSet \ {lm} :
                  ~Provided(row, m) => rec.Actual[m] = Std(row, m)

\* C4 witness: 5 leave days in a 21-day April at 9 h/day: 144.00 of 189.00.
C4_Witness ==
  \E j \in Originals :
    /\ final_data[j].Resource = "C"
    /\ AdjustmentOf("C").leave_month = "Apr"
    /\ AdjustmentOf("C").leave_days = 5
    /\ ~AdjustmentOf("C").employee_left
    /\ aug_df = <<>>
    /\ final_data[j].Actual["Apr"] = 14400
    /\ final_data[j].Planned["Apr"] = 18900
    /\ final_data[j].Actual["May"] = 18900

\* The actuals the datasets provide for a row and a month: the numeric
\* cells of the secondary dataset's rows for the employee and of the row.
ProvidedValues(row, m) ==
  { aug_df[k].Actual[m].v :
      k \in {kk \in DOMAIN aug_df : /\ aug_df[kk].Resource = row.Resource
                                    /\ aug_df[kk].Actual[m].k = "num"} }
  \cup (IF PrimaryGives(row, m) THEN {row.Actual[m].v} ELSE {})

\* C5: where the secondary dataset gives no value and the primary dataset's
\* cell is numeric, the actual is that value verbatim whatever the
\* adjustment, and a record with no secondary value keeps 'Updated From
\* CSV2' = 'No' although the primary dataset provides actuals; and only
\* the months with no provided actual get a policy-computed actual: a
\* month for which a dataset provides an actual has a provided value.
C5_PrimaryActualsOnly ==
  \A j \in Originals :
    LET rec == final_data[j]
        row == RowOf(rec.Resource)
    IN  /\ \A m \in MonthSet :
             (~SecondaryGives(rec.Resource, m) /\ PrimaryGives(row, m))
               => rec.Actual[m] = row.Actual[m].v
        /\ ((\A m \in MonthSet : ~SecondaryGives(rec.Resource, m))
            /\ (\E m \in MonthSet : PrimaryGives(row, m)))
             => rec.Updated_From_CSV2 = "No"
        /\ \A m \in MonthSet :
             Provided(row, m) => rec.Actual[m] \in ProvidedValues(row, m)

\* What the code keeps of C5: the same without its last part, the primary
\* dataset's value verbatim and no flag.
C5_PrimaryActuals ==
  \A j \in Originals :
    LET rec == final_data[j]
        row == RowOf(rec.Resource)
    IN  /\ \A m \in MonthSet :
             (~SecondaryGives(rec.Resource, m) /\ PrimaryGives(row, m))
               => rec.Actual[m] = row.Actual[m].v
        /\ ((\A m \in MonthSet : ~SecondaryGives(rec.Resource, m))
            /\ (\E m \in MonthSet : PrimaryGives(row, m)))
             => rec.Updated_From_CSV2 = "No"

\* The kept part's case: B exits on 15 April; the file's 152.25 for April and 40.00
\* for September (a month after the exit) are kept, the flag stays 'No'.
C5_Witness ==
  \E j \in Originals :
    /\ final_data[j].Resource = "B"
    /\ AdjustmentOf("B").employee_left
    /\ AdjustmentOf("B").left_in_month = "Apr"
    /\ aug_df = <<>>
    /\ final_data[j].Actual["Apr"] = 15225
    /\ final_data[j].Actual["Sep"] = 4000
    /\ final_data[j].Planned["Sep"] = 0
    /\ final_data[j].Actual["May"] = 0
    /\ final_data[j].Updated_From_CSV2 = "No"

\* The replacement's figures by the position of the month to the join month.
ReplacementFigures(rec, row, r) ==
  \A m \in MonthSet :
    IF MonthNo(m) < MonthNo(r.join_month)
    THEN rec.Planned[m] = 0 /\ rec.Actual[m] = 0 /\ rec.Billing[m] = Num(0)
    ELSE IF m = r.join_month
    THEN /\ rec.Planned[m] = Std(row, m)
         /\ rec.Actual[m] =
              RoundHalfEven(Std(row, m) * (Wd(m) - (r.join_day - 1)), Wd(m))
    ELSE rec.Planned[m] = Std(row, m) /\ rec.Actual[m] = Std(row, m)

\* round(std x d / wd, 2) + round(std x (wd - (j - 1)) / wd, 2)
CombinedActual(row, m, exit_day, join_day) ==
  RoundHalfEven(Std(row, m) * exit_day, Wd(m))
  + RoundHalfEven(Std(row, m) * (Wd(m) - (join_day - 1)), Wd(m))

\* C6 as stated: the replacement's figures are 0 before the join month,
\* planned = standardHours and actual = round(standardHours x (workingDays -
\* (joinDay - 1)) / workingDays, 2) in it, standardHours after it; and for an
\* exit on day d of the join month the two records' actuals for that month
\* add up to round(std x d / wd, 2) + round(std x (wd - (j - 1)) / wd, 2).
C6_ReplacementContinuity ==
  \A j \in Replacements :
    LET rec == final_data[j]
        orig == final_data[j - 1]
        row == RowOf(orig.Resource)
        p == AdjustmentOf(orig.Resource)
        r == p.replacement_info
    IN  /\ ReplacementFigures(rec, row, r)
        /\ (p.employee_left /\ p.left_in_month = r.join_month)
             => orig.Actual[r.join_month] + rec.Actual[r.join_month] =
                  CombinedActual(row, r.join_month, p.left_day, r.join_day)

\* C6 amended: the same, the sum being claimed only when no dataset provides
\* the exiting employee's actual for that month.
C6_ReplacementFigures ==
  \A j \in Replacements :
    LET rec == final_data[j]
        orig == final_data[j - 1]
        row == RowOf(orig.Resource)
        p == AdjustmentOf(orig.Resource)
        r == p.replacement_info
    IN  /\ ReplacementFigures(rec, row, r)
        /\ (p.employee_left /\ p.left_in_month = r.join_month
            /\ ~Provided(row, r.join_month))
             => orig.Actual[r.join_month] + rec.Actual[r.join_month] =
                  CombinedActual(row, r.join_month, p.left_day, r.join_day)

\* C6 witness: A exits on 15 April, the replacement joins on 10 April of 21
\* days: 120.00 and 96.00 hours, nothing for the replacement in March.
C6_Witness ==
  \E j \in Replacements :
    /\ j > 1
    /\ final_data[j - 1].Resource = "A"
    /\ AdjustmentOf("A").employee_left
    /\ AdjustmentOf("A").left_in_month = "Apr"
    /\ AdjustmentOf("A").replacement_info.join_month = "Apr"
    /\ AdjustmentOf("A").replacement_info.join_day = 10
    /\ aug_df = <<>>
    /\ final_data[j - 1].Actual["Apr"] = 12000
    /\ final_data[j].Actual["Apr"] = 9600
    /\ final_data[j].Planned["Apr"] = 16800
    /\ final_data[j].Planned["Mar"] = 0
    /\ final_data[j].Billing["Mar"] = Num(0)
    /\ final_data[j].Actual["May"] = 16800

\* The identities the output must list for the first n rows: each row's,
\* followed at once by its replacement's when its adjustment carries one.
RECURSIVE ExpectedIdentities(_)
ExpectedIdentities(n) ==
  IF n = 0 THEN <<>>
  ELSE LET r == AdjustmentOf(df[n].Resource).replacement_info
       IN  ExpectedIdentities(n - 1)
           \o <<[Resource |-> df[n].Resource, Hexaware_ID |-> df[n].Hexaware_ID,
                 replacement |-> FALSE]>>
           \o (IF r.replacement
               THEN <<[Resource |-> r.replacement_name,
                       Hexaware_ID |-> r.replacement_id, replacement |-> TRUE]>>
               ELSE <<>>)

Identities(records) ==
  [j \in DOMAIN records |->
     [Resource |-> records[j].Resource, Hexaware_ID |-> records[j].Hexaware_ID,
      replacement |-> records[j].Resource \notin Roster]]

\* C7: the returned table lists one record per input row in input order,
\* plus one record right after the original for each row whose adjustment
\* carries a replacement, that record having status 'Active'; nothing else.
\* While the loop runs the same holds of the rows already processed.
C7_RecordCountAndOrder ==
  /\ pc = "done" => Identities(final_df) = ExpectedIdentities(Len(df))
  /\ pc = "rows" => Identities(final_data) = ExpectedIdentities(row_idx - 1)
  /\ \A j \in Replacements : final_data[j].Empl_Status = "Active"

\* C7 witness: two rows, the first with an exit and a replacement: three
\* records, the replacement second and 'Active', the second row's last.
C7_Witness ==
  /\ pc = "done"
  /\ Len(df) = 2
  /\ Len(final_df) = 3
  /\ final_df[1].Resource = df[1].Resource
  /\ final_df[1].Empl_Status = "Inactive"
  /\ final_df[2].Resource = "Rep"
  /\ final_df[2].Empl_Status = "Active"
  /\ final_df[3].Resource = df[2].Resource

\* C8: a replacement record is emitted only for an employee whose adjustment
\* is an exit, whatever replacement descriptor the configuration carries.
C8_ReplacementGating ==
  \A j \in Replacements :
    j > 1 /\ AdjustmentOf(final_data[j - 1].Resource).employee_left

\* C9: with a month of 0 working days analyze_csv_bulk never raises, and an
\* exit or leave month of 0 working days with no provided actual has actual 0.
C9_ZeroWorkingDays ==
  /\ raised # "ZeroDivisionError"
  /\ \A j \in Originals : \A m \in MonthSet :
       LET rec == final_data[j]
           p == AdjustmentOf(rec.Resource)
       IN  (Wd(m) = 0 /\ ~Provided(RowOf(rec.Resource), m)
            /\ m \in {p.left_in_month, p.leave_month})
             => rec.Actual[m] = 0

\* C10: an exit or join (year, month, day) that is no calendar date never
\* makes analyze_csv_bulk raise, and leaves 'End date' of the exited
\* employee, or 'Start Date' of the replacement, blank.
C10_DateFailsSoftly ==
  /\ raised # "ValueError"
  /\ \A j \in Originals :
       LET p == AdjustmentOf(final_data[j].Resource)
       IN  (p.employee_left /\ ~ValidDate(p.left_in_month, p.left_day))
             => final_data[j].End_date = <<>>
  /\ \A j \in Replacements :
       LET r == AdjustmentOf(final_data[j - 1].Resource).replacement_info
       IN  ~ValidDate(r.join_month, r.join_day) => final_data[j].Start_Date = <<>>

\* The integers nearest to n / d (d > 0): one, or the two neighbours of a
\* quotient halfway between them.
Nearest(n, d) ==
  LET q == n \div d
      r == n % d
  IN  IF 2 * r < d THEN {q} ELSE IF 2 * r > d THEN {q + 1} ELSE {q, q + 1}

\* The hundredths of a percent nearest to 100 a / b (b > 0), divided in
\* stages.
NearestPercent(a, b) ==
  LET q0 == a \div b
      r0 == a % b
      q1 == (r0 * 100) \div b
      r1 == (r0 * 100) % b
  IN  {q0 * 10000 + q1 * 100 + x : x \in Nearest(r1 * 100, b)}

\* The twelve monthly values of a column added up.
Sum12(col) ==
  col["Jan"] + col["Feb"] + col["Mar"] + col["Apr"] + col["May"] + col["Jun"]
  + col["Jul"] + col["Aug"] + col["Sep"] + col["Oct"] + col["Nov"] + col["Dec"]

\* A float total to the cent: round(x, 2) in hundredths.
Cents(cell) == IF cell.k = "float" THEN Round2(cell.d) ELSE cell.v

\* C11: in every output record, original or replacement, Total Planned Hrs
\* and Total Actual Hrs are the sums of the 12 monthly values (the actual
\* total as a float: the sum to the cent, and the sum itself when every
\* month is a whole number of hours), the diff is
\* their difference, Billing Amount = round(totalActual x billingFactor x
\* rate, 2) (not a number when the rate cell is empty), and Utilization % =
\* round(100 x totalActual / totalPlanned, 2), 0 when totalPlanned = 0; a
\* rounded figure is a hundredth nearest to the exact one.
C11_AggregateTotals ==
  \A j \in DOMAIN final_data :
    LET rec == final_data[j]
        tp == Sum12(rec.Planned)
        ta == Sum12(rec.Actual)
    IN  /\ rec.Total_Planned_Hrs = tp
        /\ rec.Total_Actual_Hrs.k \in {"num", "float"}
        /\ Cents(rec.Total_Actual_Hrs) = ta
        /\ (\A m \in MonthSet : rec.Actual[m] % 100 = 0)
             => rec.Total_Actual_Hrs = Num(ta)
        /\ rec.Total_Planned_Vs_Actual_Diff = tp - ta
        /\ rec.Rate.k = "num"
             => /\ rec.Billing_Amount.k = "num"
                /\ rec.Billing_Amount.v
                     \in Nearest(ta * BillingFactor(rec.Deputation) * rec.Rate.v, 100)
        /\ rec.Rate.k = "nan" => rec.Billing_Amount = NaN
        /\ rec.Utilization \in (IF tp = 0 THEN {0} ELSE NearestPercent(ta, tp))

\* C11 witness: A exits on 15 April of a 21-day year and the replacement
\* joins on 10 April: 672.00 planned, 624.00 actual, 92.86 % and 26676.00
\* billed for A; 1512.00, 1440.00, 95.24 % and 61560.00 for the replacement.
C11_Witness ==
  \E j \in Replacements :
    /\ j > 1
    /\ final_data[j - 1].Resource = "A"
    /\ aug_df = <<>>
    /\ final_data[j - 1].Total_Planned_Hrs = 67200
    /\ final_data[j - 1].Total_Actual_Hrs = Num(62400)
    /\ final_data[j - 1].Total_Planned_Vs_Actual_Diff = 4800
    /\ final_data[j - 1].Utilization = 9286
    /\ final_data[j - 1].Billing_Amount = Num(2667600)
    /\ final_data[j].Total_Planned_Hrs = 151200
    /\ final_data[j].Total_Actual_Hrs = Num(144000)
    /\ final_data[j].Utilization = 9524
    /\ final_data[j].Billing_Amount = Num(6156000)

\* A figure halfway between two cents, where the float decides: A's
\* 1968.50 hours bill 84153.375, written 84153.37.
C11_HalfwayBilling ==
  \E j \in Originals :
    /\ final_data[j].Resource = "A"
    /\ final_data[j].Total_Actual_Hrs = Num(196850)
    /\ final_data[j].Rate = Num(45)
    /\ final_data[j].Billing["Apr"] = Num(515138)
    /\ final_data[j].Billing_Amount = Num(8415337)

\* A's 1998.36 of 2016 hours are 99.125 %, written 99.13; the total of
\* the twelve additions is the float 1998.3600000000001, one after the
\* float of 1998.36.
C11_HalfwayPercent ==
  \E j \in Originals :
    /\ final_data[j].Resource = "A"
    /\ final_data[j].Actual["Apr"] = 15036
    /\ final_data[j].Total_Actual_Hrs =
         Float([neg |-> FALSE,
                abs |-> [m |-> [hi |-> 32741130, lo |-> 64424510], e |-> 0 - 42]])
    /\ Cents(final_data[j].Total_Actual_Hrs) = 199836
    /\ final_data[j].Total_Planned_Hrs = 201600
    /\ final_data[j].Utilization = 9913

\* A record with no planned hour at all and hours taken from a dataset: the
\* utilization guard's case.
C11_ZeroPlanned ==
  \E j \in Originals :
    /\ final_data[j].Total_Planned_Hrs = 0
    /\ Cents(final_data[j].Total_Actual_Hrs) > 0
    /\ final_data[j].Utilization = 0

\* The mandatory columns of the primary dataset.
Mandatory == {"Resource", "Deputation", "Average/Flat-lined Rate"}

\* The column names the text of a validation error spells out.
NamedIn(msg) ==
  CASE msg = "Main CSV is missing 'Resource' or 'NAME' column" -> {"Resource"}
    [] msg = "Main CSV is missing 'Deputation' column" -> {"Deputation"}
    [] msg = "Main CSV is missing 'Average/Flat-lined Rate' or 'Rate' column" ->
         {"Average/Flat-lined Rate"}
    [] OTHER -> {}

\* C12: when the normalized header lacks mandatory columns, the call fails
\* with an error whose message names every one of them, and no record is
\* produced.
C12_SchemaValidation ==
  LET missing == Mandatory \ NormalizedColumns(columns)
  IN  (missing # {} /\ pc # "read")
        => /\ pc = "raised"
           /\ raised = "ValueError"
           /\ missing \subseteq NamedIn(message)
           /\ final_data = <<>>
           /\ final_df = <<>>

\* What the code does keep of C12: a header that lacks mandatory columns
\* makes the call fail with a message naming the first of them, before any
\* record is produced.
C12_FirstMissingNamed ==
  LET missing == Mandatory \ NormalizedColumns(columns)
  IN  (missing # {} /\ pc # "read")
        => /\ pc = "raised"
           /\ raised = "ValueError"
           /\ NamedIn(message) # {}
           /\ NamedIn(message) \subseteq missing
           /\ final_data = <<>>
           /\ final_df = <<>>

\* C13: the deputation cell selects ONSITE (0.95, 8 h/day), OFFSHORE (0.88,
\* 8.75 h/day) or NEARSHORE (0.90, 9 h/day) whatever its case, and any other
\* content, the empty cell included, selects factor 1 and 8 h/day: every
\* billed month of a record with a rate is round(actual x factor x rate, 2)
\* (a hundredth nearest to the product; not a number in the record of a
\* row whose rate cell is empty), the planned hours of an employee
\* who has not left are workingDays x hours/day, and a call with a valid
\* header and no adjustment raises nothing.
C13_DeputationLookup ==
  /\ \A j \in DOMAIN final_data : \A m \in MonthSet :
       LET rec == final_data[j]
       IN  /\ rec.Rate.k = "num"
                => /\ rec.Billing[m].k = "num"
                   /\ rec.Billing[m].v
                        \in Nearest(rec.Actual[m] * BillingFactor(rec.Deputation)
                                      * rec.Rate.v,
                                    100)
           /\ (rec.Rate.k = "nan" /\ j \in Originals) => rec.Billing[m] = NaN
           /\ (j \in Originals /\ ~AdjustmentOf(rec.Resource).employee_left)
                => rec.Planned[m] = Wd(m) * HoursPerDay(rec.Deputation)
  /\ (employee_params = <<>> /\ Mandatory \subseteq NormalizedColumns(columns))
       => raised = ""

\* C13 witness: the returned record of a row with an empty deputation cell:
\* 21 days of 8 hours in January, billed at 1 x 45.
C13_Witness ==
  /\ pc = "done"
  /\ Len(final_df) = 1
  /\ final_df[1].Deputation = ""
  /\ employee_params = <<>>
  /\ final_df[1].Planned["Jan"] = 16800
  /\ final_df[1].Billing["Jan"] = Num(756000)

\* Lower-case spellings reach their class: "nearshore" gives 9 h/day and
\* factor 0.90, "offshore" 8.75 h/day and factor 0.88.
C13_LowerCase ==
  /\ pc = "done"
  /\ final_df[1].Deputation \in {"nearshore", "offshore"}
  /\ final_df[1].Planned["Jan"] = 21 * HoursPerDay(final_df[1].Deputation)
  /\ final_df[1].Planned["Jan"] > 16800

\* The service-rate step has run to its end on the page's result.
Enriched == pc \in {"format", "shown"} /\ tsr_file.given /\ warning = <<>>

\* The row of the primary dataset a result record stems from: its own, or
\* for a replacement the one of the record before it.
SourceRow(table, i) ==
  IF table[i].Resource \in Roster THEN RowOf(table[i].Resource)
  ELSE RowOf(table[i - 1].Resource)

\* The service-rate code the file gives a row: its "TSR" cell, else its
\* "PPM ID" cell.
FileCodeText(row) == IF row.TSR # "" THEN row.TSR ELSE row.PPM_ID

\* The integer a code text starts with, -1 when its first token is none.
CodeNumber(text) ==
  CASE text \in {"101", "101 A"} -> 101
    [] text \in {"102", "102 B"} -> 102
    [] text = "999" -> 999
    [] OTHER -> -1

\* The country and currency a deputation class is charged in.
ChargedCountry(class) ==
  CASE class = "ONSITE" -> "USA"
    [] class = "NEARSHORE" -> "India"
    [] OTHER -> offshore_country

ChargedCurrency(country) ==
  IF country \in DOMAIN COUNTRY_TO_CURRENCY THEN COUNTRY_TO_CURRENCY[country]
  ELSE "USD"

\* The naturals nearest to p / 2^s: the nearest one, or either neighbour
\* of a quotient that lies within p / 2^(s + 30), the reach of the floats'
\* own rounding, of the middle between them.
NearestScaled(p, s) ==
  { IntOfWide(RoundedShift(WideSub(p, ShiftRight(p, 30)), s)),
    IntOfWide(RoundedShift(WideAdd(p, ShiftRight(p, 30)), s)) }

\* The hundredths nearest to local x rate, for local in hundredths and the
\* multiplier rate, a float of value rate.m x 2^rate.e.
NearestProduct(local, rate) ==
  IF local = 0 \/ rate = Zero THEN {0}
  ELSE NearestScaled(WideMul(WideOfInt(local), WideOfBig(rate.m)), 0 - rate.e)

\* round(localAmount x multiplier, 2) of table row k in a currency: the
\* hundredths nearest to the product, 0 when the file has no such column or
\* the cell holds no number.
ExpectedUsd(k, currency) ==
  LET cell == tsr_file.rows[k].Amount[currency]
  IN  IF currency \in {Strip(name) : name \in tsr_file.header} /\ cell.k = "num"
      THEN NearestProduct(cell.v, exchange_rates[currency])
      ELSE {0}

\* The rows of the service-rate file whose code is the number n.
TableRowsFor(n) ==
  {k \in DOMAIN tsr_file.rows : CodeNumber(tsr_file.rows[k].Code) = n}

\* C14: for a record whose code matches a row of the service-rate table,
\* the charge is taken in the currency of USA for ONSITE, India for
\* NEARSHORE and the selected country for OFFSHORE (USD for a country with
\* no currency of its own), and every month's amount is round(localAmount x
\* multiplier, 2), 0 when the row has no amount in that currency.
C14_ServiceRateConversion ==
  Enriched =>
    \A i \in DOMAIN result_df :
      LET rec == result_df[i]
          n == CodeNumber(FileCodeText(SourceRow(result_df, i)))
          class == DeputationClass(rec.Deputation)
          currency == ChargedCurrency(ChargedCountry(class))
      IN  (n >= 0 /\ TableRowsFor(n) # {} /\ class # "none"
           /\ currency \in DOMAIN exchange_rates)
            => \E k \in TableRowsFor(n) :
                 LET expected == ExpectedUsd(k, currency)
                 IN  \A m \in MonthSet : rec.Monthly_TSR[m] \in expected

\* What the code does keep of C14: the same, for the records whose code
\* still reads as an integer after the dataset was read (in a column of
\* numbers with an empty cell every code is read as a float).
C14_ConversionOfCodesAsRead ==
  Enriched =>
    \A i \in DOMAIN result_df :
      LET rec == result_df[i]
          n == CodeNumber(TsrCodeOf(rec))
          class == DeputationClass(rec.Deputation)
          currency == ChargedCurrency(ChargedCountry(class))
      IN  (n >= 0 /\ TableRowsFor(n) # {} /\ class # "none"
           /\ currency \in DOMAIN exchange_rates)
            => \E k \in TableRowsFor(n) :
                 LET expected == ExpectedUsd(k, currency)
                 IN  \A m \in MonthSet : rec.Monthly_TSR[m] \in expected

\* An OFFSHORE record charged in the selected country's currency: B's code
\* "102 B" finds row 102, whose 500002.50 PHP at 0.018 are 9000.045 USD,
\* written 9000.05 a month.
C14_OffshoreCharged ==
  /\ Enriched
  /\ offshore_country = "Philippines"
  /\ conversion_method = "multiply"
  /\ exchange_rates["PHP"] = FloatOfEntry(180)
  /\ \E i \in DOMAIN result_df :
       /\ result_df[i].Resource = "B"
       /\ result_df[i].TSR_Name = "Tester"
       /\ result_df[i].Monthly_TSR["Jan"] = 900005

\* The page as it comes up: 55.5 PHP to the dollar, so the multiplier
\* 1 / 55.5 = 0.018018018018018018, and B's 500002.50 PHP are 9009.05 USD
\* a month.
C14_UntouchedPage ==
  /\ Enriched
  /\ offshore_country = "Philippines"
  /\ conversion_method = "divide"
  /\ exchange_rates["PHP"] =
       [m |-> [hi |-> 19346699, lo |-> 142681909], e |-> 0 - 58]
  /\ exchange_rates["INR"] =
       [m |-> [hi |-> 26109223, lo |-> 183580479], e |-> 0 - 59]
  /\ \E i \in DOMAIN result_df :
       /\ result_df[i].Resource = "B"
       /\ result_df[i].Monthly_TSR["Jan"] = 900905

\* The service-rate table was loaded, and the step is over.
TableLoaded == pc \in {"format", "shown"} /\ tsr_df.columns # {}

\* The file gives the record no code, or one whose first token is no
\* integer, or one that no row of the table carries.
LookupMisses(i) ==
  LET text == FileCodeText(SourceRow(result_df, i))
  IN  text = "" \/ CodeNumber(text) = -1 \/ TableRowsFor(CodeNumber(text)) = {}

\* C15: once the table is loaded the service-rate step ends without a
\* failure, every record of the billing result is in the enriched table, and
\* a record whose code is absent, empty, not an integer in its first token
\* or in no row of the table has amount 0 in every month, Total TSR 0 and an
\* empty TSR Name.
C15_LookupMiss ==
  TableLoaded =>
    /\ warning = <<>>
    /\ raised = ""
    /\ Len(result_df) = Len(final_df)
    /\ \A i \in DOMAIN result_df :
         /\ "Total_TSR" \in DOMAIN result_df[i]
         /\ result_df[i].Resource = final_df[i].Resource
         /\ LookupMisses(i)
              => /\ \A m \in MonthSet : result_df[i].Monthly_TSR[m] = 0
                 /\ result_df[i].Total_TSR = Num(0)
                 /\ result_df[i].TSR_Name = ""

\* C15 witness: D's code "ABC" is no number and D gets nothing, while A on
\* the row before or after it is charged row 101's 95.00 USD a month.
C15_Witness ==
  /\ pc = "shown"
  /\ TableLoaded
  /\ \E i, k \in DOMAIN result_df :
       /\ result_df[i].Resource = "D"
       /\ result_df[i].TSR_Code = "ABC"
       /\ result_df[i].TSR_Name = ""
       /\ result_df[i].Total_TSR = Num(0)
       /\ result_df[k].Resource = "A"
       /\ result_df[k].TSR_Name = "Developer"
       /\ result_df[k].Monthly_TSR["Dec"] = 9500

\* C16: in every enriched record the 12 monthly TSR amounts are one and the
\* same and Total TSR is their sum, DGM = Billing Amount - Total TSR (both
\* as floats: the figure to the cent, and the figure itself once the page
\* has formatted the table) and %DGM = round(100 x DGM / Billing Amount, 2)
\* (a hundredth nearest to the quotient), 0 when Billing Amount is 0; both
\* are not a number when the Billing Amount is not a number.
C16_TotalsAndMargin ==
  TableLoaded =>
    \A i \in DOMAIN result_df :
      LET rec == result_df[i]
          total == Sum12(rec.Monthly_TSR)
      IN  /\ \A m \in MonthSet : rec.Monthly_TSR[m] = rec.Monthly_TSR["Jan"]
          /\ rec.Total_TSR.k \in {"num", "float"}
          /\ Cents(rec.Total_TSR) = total
          /\ pc = "shown" => rec.Total_TSR = Num(total)
          /\ rec.Billing_Amount.k = "num"
               => /\ rec.DGM.k \in {"num", "float"}
                  /\ Cents(rec.DGM) = rec.Billing_Amount.v - total
                  /\ pc = "shown" => rec.DGM = Num(rec.Billing_Amount.v - total)
                  /\ rec.Pct_DGM.k = "num"
                  /\ rec.Pct_DGM.v \in
                       (IF rec.Billing_Amount.v = 0 THEN {0}
                        ELSE NearestPercent(rec.Billing_Amount.v - total,
                                            rec.Billing_Amount.v))
          /\ rec.Billing_Amount.k = "nan" => (rec.DGM = NaN /\ rec.Pct_DGM = NaN)

\* C16 witness: A exits on 15 April and is replaced; both records carry
\* code 101 at 95.00 USD a month, in A's zero-hour months too: 26676.00 -
\* 1140.00 = 25536.00 (95.73 %) and 61560.00 - 1140.00 = 60420.00 (98.15 %).
C16_Witness ==
  /\ pc = "shown"
  /\ TableLoaded
  /\ Len(result_df) >= 2
  /\ result_df[1].Resource = "A"
  /\ result_df[1].Actual["Dec"] = 0
  /\ result_df[1].Monthly_TSR["Dec"] = 9500
  /\ result_df[1].Total_TSR = Num(114000)
  /\ result_df[1].DGM = Num(2553600)
  /\ result_df[1].Pct_DGM = Num(9573)
  /\ result_df[2].Resource = "Rep"
  /\ result_df[2].Monthly_TSR["Jan"] = 9500
  /\ result_df[2].DGM = Num(6042000)
  /\ result_df[2].Pct_DGM = Num(9815)

\* A record billed 0 (a rate of 0) and charged: the margin is minus the
\* charge and %DGM is 0.
C16_ZeroBilling ==
  /\ pc = "shown"
  /\ TableLoaded
  /\ \E i \in DOMAIN result_df :
       /\ result_df[i].Billing_Amount = Num(0)
       /\ Cents(result_df[i].Total_TSR) > 0
       /\ result_df[i].DGM = Num(0 - Cents(result_df[i].Total_TSR))
       /\ result_df[i].Pct_DGM = Num(0)

\* A record charged more than it bills: DGM and %DGM are negative.
C16_NegativeMargin ==
  /\ pc = "shown"
  /\ TableLoaded
  /\ \E i \in DOMAIN result_df :
       /\ result_df[i].Billing_Amount.k = "num"
       /\ result_df[i].Billing_Amount.v > 0
       /\ Cents(result_df[i].DGM) < 0
       /\ result_df[i].Pct_DGM.v < 0

\* Totals that are no whole hundredths before the page formats them: B's
\* 500002.50 PHP at 0.0575 are 28750.14 USD a month, whose twelve
\* additions leave 345001.6800000001, and the margin is a float of the same
\* kind.
C16_UnroundedTotal ==
  /\ pc = "format"
  /\ TableLoaded
  /\ \E i \in DOMAIN result_df :
       /\ result_df[i].Resource = "B"
       /\ result_df[i].Monthly_TSR["Jan"] = 2875014
       /\ result_df[i].Total_TSR =
            Float([neg |-> FALSE,
                   abs |-> [m |-> [hi |-> 22080107, lo |-> 139586439], e |-> 0 - 34]])
       /\ result_df[i].DGM.k = "float"
       /\ Cents(result_df[i].DGM) = result_df[i].Billing_Amount.v - 34500168

\* The same record once the table is formatted: 345001.68.
C16_FormattedTotal ==
  /\ pc = "shown"
  /\ TableLoaded
  /\ \E i \in DOMAIN result_df :
       /\ result_df[i].Resource = "B"
       /\ result_df[i].Monthly_TSR["Jan"] = 2875014
       /\ result_df[i].Total_TSR = Num(34500168)
       /\ result_df[i].DGM = Num(result_df[i].Billing_Amount.v - 34500168)
       /\ display_df = result_df

\* A record with no rate: Billing Amount, DGM and %DGM hold no number.
C16_NoBilling ==
  /\ TableLoaded
  /\ \E i \in DOMAIN result_df :
       /\ result_df[i].Billing_Amount = NaN
       /\ Cents(result_df[i].Total_TSR) > 0
       /\ result_df[i].DGM = NaN
       /\ result_df[i].Pct_DGM = NaN

\* The upload cannot be loaded: the reader rejects it, or its header lacks
\* "TSR Code" or "TSR Name" once the names are stripped.
LoadFails ==
  /\ tsr_file.given
  /\ \/ ~tsr_file.readable
     \/ ~({"TSR Code", "TSR Name"} \subseteq {Strip(name) : name \in tsr_file.header})

\* The service-rate step failed and the page holds the warning and exactly
\* the table analyze_csv_bulk returned (no service-rate column), its
\* numbers formatted to two decimals once it is shown.
Isolated ==
  /\ warning # <<>>
  /\ result_df =
       (IF pc = "shown" THEN [i \in DOMAIN final_df |-> FormattedRecord(final_df[i])]
        ELSE final_df)
  /\ final_df # <<>>
  /\ \A i \in DOMAIN result_df : "Total_TSR" \notin DOMAIN result_df[i]

\* C18: when the service-rate step fails after the billing result was
\* computed, the run does not abort: the page shows a warning, holds exactly
\* the table analyze_csv_bulk returned (no service-rate column), and that
\* table is what it displays and offers for download; only an exception of
\* analyze_csv_bulk ends a run without a table.
C18_FailureIsolation ==
  /\ (LoadFails /\ pc \in {"format", "shown", "failed"}) => Isolated
  /\ (LoadFails /\ pc = "shown") => display_df = result_df
  /\ LoadFails => pc # "failed"
  /\ pc = "raised" => (raised # "" /\ warning = <<>>)

\* What the code does keep of C18: up to the formatting of the table the
\* failure is isolated, and a table that is displayed is the one
\* analyze_csv_bulk returned.
C18_IsolatedUntilFormat ==
  /\ (LoadFails /\ pc \in {"format", "shown", "failed"}) => Isolated
  /\ (LoadFails /\ pc = "shown") => display_df = result_df
  /\ pc = "failed" => (NanInNumericColumn(result_df) /\ display_df = <<>>)
  /\ pc = "raised" => (raised # "" /\ warning = <<>>)

\* The run aborts after the warning: the "PPM ID" column holds C's 102
\* beside an empty cell, the formatting raises and no table is displayed.
C18_AbortedAfterWarning ==
  /\ pc = "failed"
  /\ LoadFails
  /\ warning # <<>>
  /\ raised = "ValueError"
  /\ message = "cannot convert float NaN to integer"
  /\ display_df = <<>>
  /\ \E i, k \in DOMAIN final_df :
       final_df[i].PPM_ID = "" /\ final_df[k].PPM_ID = "102.0"

\* C18 witness: the file spells its code column "TSR code"; the warning is
\* up and the billing result of two records is displayed as it was.
C18_Witness ==
  /\ pc = "shown"
  /\ "TSR code" \in tsr_file.header
  /\ warning # <<>>
  /\ Len(final_df) = 2
  /\ display_df = final_df
  /\ result_df = final_df
  /\ final_df[1].Billing_Amount.k = "num"
  /\ final_df[1].Billing_Amount.v > 0

\* What the adjustment form can produce: an exit day 1-31 in a month of the
\* list, a leave of 0-30 days, a replacement only with an exit and with a
\* join day 1-31 in a month of the list.
FormAllows(p) ==
  /\ p.employee_left => (InMonths(p.left_in_month) /\ p.left_day \in 1..31)
  /\ p.leave_days \in 0..30
  /\ p.replacement_info.replacement
       => /\ p.employee_left
          /\ InMonths(p.replacement_info.join_month)
          /\ p.replacement_info.join_day \in 1..31

\* Every month has 1-31 working days and every adjustment is one the form
\* can produce.
FormInputs ==
  /\ \A m \in MonthSet : Wd(m) \in 1..31
  /\ \A r \in DOMAIN employee_params : FormAllows(employee_params[r])

\* C20: for inputs the form allows, in every record, original or
\* replacement, and every month whose actual is not taken from a dataset,
\* 0 <= actual <= workingDays(month) x hoursPerDay(deputation).
C20_HoursBounds ==
  FormInputs =>
    \A j \in DOMAIN final_data : \A m \in MonthSet :
      LET rec == final_data[j]
          cap == Wd(m) * HoursPerDay(CellText(rec.Deputation))
      IN  (j \in Replacements \/ ~Provided(RowOf(rec.Resource), m))
            => (0 <= rec.Actual[m] /\ rec.Actual[m] <= cap)

\* The bounds hold when, besides, the exit day, the leave days and the join
\* day less one do not exceed the month's working days.
C20_WithinWorkingDays ==
  (/\ FormInputs
   /\ \A r \in DOMAIN employee_params :
        LET p == employee_params[r]
        IN  /\ p.employee_left => p.left_day <= Wd(p.left_in_month)
            /\ p.leave_month # "" => p.leave_days <= Wd(p.leave_month)
            /\ p.replacement_info.replacement
                 => p.replacement_info.join_day - 1 <= Wd(p.replacement_info.join_month))
    => \A j \in DOMAIN final_data : \A m \in MonthSet :
         LET rec == final_data[j]
             cap == Wd(m) * HoursPerDay(CellText(rec.Deputation))
         IN  (j \in Replacements \/ ~Provided(RowOf(rec.Resource), m))
               => (0 <= rec.Actual[m] /\ rec.Actual[m] <= cap)

\* An exit on day 31 of a 21-day April at 8 h/day: 248.00 h against 168.00.
C20_OverStandard ==
  /\ FormInputs
  /\ \E j \in Originals :
       /\ AdjustmentOf(final_data[j].Resource).left_day = 31
       /\ final_data[j].Planned["Apr"] = 16800
       /\ final_data[j].Actual["Apr"] = 24800

\* A negative actual: 30 leave days, or a join on day 31, in a 21-day April.
C20_Negative ==
  /\ FormInputs
  /\ \E j \in DOMAIN final_data : final_data[j].Actual["Apr"] = 0 - 7200

\* The second call is over.
Repeated == run = 2 /\ pc \in {"done", "raised"}

\* The figures of a record: what the engine computes for its employee.
Figures(rec) ==
  [Resource |-> rec.Resource,
   Empl_Status |-> rec.Empl_Status,
   Planned |-> rec.Planned,
   Actual |-> rec.Actual,
   Billing |-> rec.Billing,
   Total_Planned_Hrs |-> rec.Total_Planned_Hrs,
   Total_Actual_Hrs |-> rec.Total_Actual_Hrs,
   Total_Planned_Vs_Actual_Diff |-> rec.Total_Planned_Vs_Actual_Diff,
   Utilization |-> rec.Utilization,
   Billing_Amount |-> rec.Billing_Amount,
   Updated_From_CSV2 |-> rec.Updated_From_CSV2]

\* C19: a second call of analyze_csv_bulk on the upload objects and the
\* dictionaries of the first, as the first left them, ends as the first
\* did, with the same records in the same order (or the same exception),
\* wherever the uploads' streams stood before either call; a call on the
\* file of one row alone returns, for that employee and its replacement,
\* the figures they had in the call that processed the other rows too; and
\* in any call the record of an employee with no entry in employee_params
\* shows the default figures, whatever adjustment another employee of the
\* call has: standardHours planned and actual in every month with no
\* provided actual, no replacement after it, the status and end date of
\* its row.
C19_Determinism ==
  /\ (Repeated /\ first_run.alone = 0)
       => /\ pc = first_run.pc
          /\ final_df = first_run.final_df
          /\ raised = first_run.raised
          /\ message = first_run.message
  /\ (Repeated /\ first_run.alone > 0)
       => /\ pc = "done"
          /\ first_run.before + Len(final_df) <= Len(first_run.final_df)
          /\ \A j \in DOMAIN final_df :
               Figures(final_df[j]) = Figures(first_run.final_df[first_run.before + j])
          /\ (first_run.before + Len(final_df) < Len(first_run.final_df)
               => first_run.final_df[first_run.before + Len(final_df) + 1].Resource
                    \in Roster)
  /\ \A j \in Originals :
       LET rec == final_data[j]
           row == RowOf(rec.Resource)
       IN  rec.Resource \notin DOMAIN employee_params
             => /\ \A m \in MonthSet :
                     ~Provided(row, m)
                       => /\ rec.Planned[m] = Std(row, m)
                          /\ rec.Actual[m] = Std(row, m)
                /\ rec.Empl_Status = row.Empl_Status
                /\ rec.End_date = row.End_date
                /\ (j < Len(final_data) => final_data[j + 1].Resource \in Roster)

\* C19 witness: the call on A (exit on 15 April, replaced on the 10th) and C
\* (no entry) is repeated; both calls return A, Rep, C, and C's figures are
\* the default ones.
C19_Witness ==
  /\ Repeated
  /\ first_run.alone = 0
  /\ pc = "done"
  /\ "A" \in DOMAIN employee_params
  /\ employee_params["A"].employee_left
  /\ Len(final_df) = 3
  /\ first_run.final_df = final_df
  /\ final_df[1].Resource = "A"
  /\ final_df[1].Actual["Apr"] = 12000
  /\ final_df[2].Resource = "Rep"
  /\ final_df[3].Resource = "C"
  /\ final_df[3].Actual["Apr"] = 18900
  /\ final_df[3].Actual["Dec"] = 18900

\* A repeated call that raises raises the same exception.
C19_RaisesAgain ==
  /\ Repeated
  /\ first_run.alone = 0
  /\ pc = "raised"
  /\ raised = "ZeroDivisionError"
  /\ first_run.raised = "ZeroDivisionError"

\* After the call on A (exit on 15 April, replaced on the 10th) and C, C's
\* file alone is processed: its one record has the figures of the third
\* record of the first call.
C19_AloneAfterExit ==
  /\ Repeated
  /\ first_run.alone = 2
  /\ first_run.before = 2
  /\ "A" \in DOMAIN employee_params
  /\ employee_params["A"].employee_left
  /\ Len(first_run.final_df) = 3
  /\ Len(final_df) = 1
  /\ final_df[1].Resource = "C"
  /\ final_df[1].Actual["Apr"] = 18900
  /\ Figures(final_df[1]) = Figures(first_run.final_df[3])

\* A's file alone after the call on C and A: A and its replacement have
\* the figures of the second and third record of the first call.
C19_AloneWithReplacement ==
  /\ Repeated
  /\ first_run.alone = 2
  /\ first_run.before = 1
  /\ Len(final_df) = 2
  /\ final_df[1].Resource = "A"
  /\ final_df[2].Resource = "Rep"
  /\ first_run.final_df[1].Resource = "C"

\* A call is entered with a secondary upload that its caller has read to
\* the end.
C19_UploadReadBefore ==
  /\ run = 1
  /\ pc = "read"
  /\ aug_csv = Upload("aug.csv", FileEnd(aug_df))

\* A rate has been converted: in a field of the page or by a call of
\* convert_exchange_rate on its own, and perhaps converted back.
Converted == pc \in {"converted", "configured", "returned", "recovered"}

\* The float after x, and floats that are equal or next to each other.
NextFloat(x) ==
  IF Succ(x.m) = TopSignificand THEN [m |-> MinSignificand, e |-> x.e + 1]
  ELSE [m |-> Succ(x.m), e |-> x.e]

WithinOneUlp(x, y) == x = y \/ NextFloat(x) = y \/ NextFloat(y) = x

\* The two conventions: "divide" returns 1 / r for r # 0 and 0 for r = 0,
\* "multiply" returns r.
ConventionsHold ==
  Converted =>
    /\ (conversion_method = "divide" /\ rate_value # Zero)
         => multiplier = OneOver(rate_value)
    /\ (conversion_method = "divide" /\ rate_value = Zero) => multiplier = Zero
    /\ conversion_method = "multiply" => multiplier = rate_value

\* C17 as stated: the two conventions hold and, for every r # 0, "divide"
\* applied twice gives r back.
C17_ExchangeRateConventions ==
  /\ ConventionsHold
  /\ (pc = "recovered" /\ conversion_method = "divide" /\ rate_value # Zero)
       => recovered = rate_value

\* C17 amended: the two conventions hold and, for every r # 0, "divide"
\* applied twice gives r or one of the two floats next to it; it gives r
\* itself when r is a power of two.
C17_RecoveredWithinOneUlp ==
  /\ ConventionsHold
  /\ (pc = "recovered" /\ conversion_method = "divide" /\ rate_value # Zero)
       => /\ WithinOneUlp(recovered, rate_value)
          /\ rate_value.m = MinSignificand => recovered = rate_value

\* C17 witness: 17.2 MXN to the dollar in the page's offshore field gives
\* the multiplier 1 / 17.2 = 0x1.dc47711dc4771p-5, which the page keeps
\* under "MXN", and dividing again gives 17.2 = 0x1.1333333333333p+4.
C17_Witness ==
  /\ pc = "recovered"
  /\ conversion_method = "divide"
  /\ rate_field = "offshore"
  /\ offshore_country = "Mexico"
  /\ rate_entry = 172000
  /\ exchange_rates["MXN"] = multiplier
  /\ rate_value = [m |-> [hi |-> 18035507, lo |-> 53687091], e |-> 0 - 48]
  /\ multiplier = [m |-> [hi |-> 31213425, lo |-> 31213425], e |-> 0 - 57]
  /\ recovered = rate_value

\* A rate of 49: 1 / (1 / 49.0) is the float after 49.0.
C17_NotRecovered ==
  /\ pc = "recovered"
  /\ conversion_method = "divide"
  /\ rate_entry = 490000
  /\ recovered # rate_value
  /\ recovered = NextFloat(rate_value)

\* A rate of 0 under "divide" gives 0, twice.
C17_ZeroRate ==
  /\ pc = "recovered"
  /\ conversion_method = "divide"
  /\ rate_entry = 0
  /\ multiplier = Zero
  /\ recovered = Zero

\* The columns add_tsr_to_dataframe adds to a record.
AddedColumns ==
  {"TSR_Code", "TSR_Name", "Monthly_TSR", "Total_TSR", "DGM", "Pct_DGM"}

\* C21: after add_tsr_to_dataframe the table it was given is what
\* analyze_csv_bulk returned, and the table it returns has the same records
\* in the same order: each has the columns of the record it comes from, with
\* their values (monthly Planned, Actual and Billing, the totals, the
\* utilization, Billing Amount and the provenance flag among them), and
\* besides these only TSR Code, TSR Name, the monthly TSR amounts, Total
\* TSR, DGM and %DGM.
C21_EnrichmentFrame ==
  (pc = "format" /\ tsr_df.columns # {}) =>
    /\ final_df = final_data
    /\ Len(result_df) = Len(final_df)
    /\ \A i \in DOMAIN final_df :
         /\ AddedColumns \cap DOMAIN final_df[i] = {}
         /\ DOMAIN result_df[i] = DOMAIN final_df[i] \cup AddedColumns
         /\ \A col \in DOMAIN final_df[i] : result_df[i][col] = final_df[i][col]

\* C21 witness: B, whose April actual 152.25 comes from the dataset, is
\* charged 9000.05 USD a month under the Philippines: its hours, billing
\* and flag are those of the billing result, which has no service-rate
\* column.
C21_Witness ==
  /\ pc = "format"
  /\ TableLoaded
  /\ offshore_country = "Philippines"
  /\ \E i \in DOMAIN result_df :
       /\ result_df[i].Resource = "B"
       /\ result_df[i].Monthly_TSR["Apr"] = 900005
       /\ Cents(result_df[i].DGM) < 0
       /\ result_df[i].Actual["Apr"] = 15225
       /\ final_df[i].Actual["Apr"] = 15225
       /\ result_df[i].Billing_Amount = final_df[i].Billing_Amount
       /\ result_df[i].Billing_Amount.k = "num"
       /\ result_df[i].Billing_Amount.v > 0
       /\ result_df[i].Updated_From_CSV2 = final_df[i].Updated_From_CSV2
       /\ "Total_TSR" \notin DOMAIN final_df[i]

====
